---- MODULE Spec2Model ----
(***************************************************************************)
(* Model of the NoisePage binder (src/src/binder/bind_node_visitor.cpp).   *)
(* BindNameToNode binds the single statement of a parse result; the        *)
(* statement tree is mutated in place and a BinderException ends the bind. *)
(***************************************************************************)
EXTENDS Integers, Sequences, FiniteSets, TLC

VARIABLES
  catalog,     \* catalog_accessor_: table name -> schema (sequence of columns)
  stmt,        \* the statement of the parse result, mutated in place
  pc,          \* position of the bind call
  error,       \* the BinderException that ended the bind (code "" when none)
  input,       \* the statement as the parser produced it (history)
  firstBound,  \* INSERT: the row as the first bind left it (history)
  frames,      \* SELECT: the stack of Visit(SelectStatement) activations
  sherpa,      \* BinderSherpa: CTE table names and the alias serial counter
  nextTempOid, \* catalog_accessor_->GetNewTempOid() counter
  oob,         \* the places where a vector was indexed out of range
  optimizer,   \* QueryToOperatorTransformer: output_expr_, predicates_, position
  txn,         \* TransactionContext: the hooks registered, the nodes allocated
  result       \* the TrafficCopResult BindQuery returned

\* The state of the optimizer, the transaction and the traffic cop, which the
\* binder itself never touches.
others == <<optimizer, txn, result>>

vars == <<catalog, stmt, pc, error, input, firstBound, frames, sherpa, nextTempOid, oob,
          optimizer, txn, result>>

----------------------------------------------------------------------------
(* Bounds *)

\* Largest number of columns of the INSERT target table.
MaxCols == 2

\* Largest number of elements of a parsed select list.
MaxSel == 2

\* Largest number of items of a parsed ORDER BY list.
MaxOrder == 2

\* The optimizer, the transaction and the traffic cop before they are used.
NoOptimizer == <<>>

NoTxn == <<>>

NoResult == <<>>

----------------------------------------------------------------------------
(* Error codes (common::ErrorCode) and the exception record *)

NoError == [code |-> "", a |-> 0, b |-> 0]

\* BINDER_EXCEPTION(msg, code); a and b carry the numbers formatted into msg.
BinderException(code, a, b) == [code |-> code, a |-> a, b |-> b]

SyntaxError == "SyntaxError"                       \* ERRCODE_SYNTAX_ERROR
UndefinedColumn == "UndefinedColumn"               \* ERRCODE_UNDEFINED_COLUMN
UndefinedTable == "UndefinedTable"                 \* ERRCODE_UNDEFINED_TABLE
SchemaMismatch == "SchemaMismatch"                 \* ERRCODE_INVALID_SCHEMA_DEFINITION
DatatypeMismatch == "DatatypeMismatch"             \* ERRCODE_DATATYPE_MISMATCH
NumericValueOutOfRange == "NumericValueOutOfRange" \* ERRCODE_NUMERIC_VALUE_OUT_OF_RANGE

----------------------------------------------------------------------------
(* Expressions *)

\* A ConstantValueExpression, DefaultValueExpression or TypeCastExpression
\* standing in a VALUES row.  type is the return value type (for a CAST the
\* target type), ctype the type of a CAST's constant child, orig the position
\* of the row the node was written at (0 for a node the binder synthesized).
ValueExpr(kind, type, ctype, isNull, orig) ==
  [kind |-> kind, type |-> type, ctype |-> ctype, isNull |-> isNull, orig |-> orig]

\* std::make_unique<ConstantValueExpression>(type, Val(true))
NullConstant(type) == ValueExpr("Const", type, "Invalid", TRUE, 0)

\* Schema::Column: the stored expression is a NULL of the column's type when
\* no default was declared.
Column(name, type, nullable, hasDefault) ==
  [name |-> name, type |-> type, nullable |-> nullable,
   stored |-> ValueExpr("Const", type, "Invalid", ~hasDefault, 0)]

\* BinderUtil::CheckAndTryPromoteType on a constant of type cur: the type the
\* constant has afterwards, "Fail" when no promotion exists.
CheckAndTryPromoteType(cur, desired) ==
  IF desired = "Invalid" \/ cur = desired THEN cur
  ELSE IF cur = "Invalid" THEN desired
  ELSE IF cur = "Integer" /\ desired = "Double" THEN desired
  ELSE "Fail"

\* BinderContext::ColumnInSchema
ColumnInSchema(schema, col_name) ==
  \E i \in 1..Len(schema) : schema[i].name = col_name

\* std::find + std::distance: 1-based index of the first occurrence, 0 if none
FindIndex(seq, x) ==
  IF \E i \in 1..Len(seq) : seq[i] = x
  THEN CHOOSE i \in 1..Len(seq) : seq[i] = x /\ \A j \in 1..(i - 1) : seq[j] # x
  ELSE 0

----------------------------------------------------------------------------
(* INSERT: BindNodeVisitor::ValidateAndCorrectInsertValues *)

\* The count test: the row must have as many values as insert columns, or as
\* schema columns when no insert column was written.
InsertCountsOk(insert_columns, values, table_schema) ==
  LET is_insert_cols_specified == Len(insert_columns) # 0
      insert_cols_ok == is_insert_cols_specified /\ Len(values) = Len(insert_columns)
      insert_schema_ok == ~is_insert_cols_specified /\ Len(values) = Len(table_schema)
  IN insert_cols_ok \/ insert_schema_ok

\* No insert columns: the tuple values are taken to be schema ordered.
SchemaOrderedCols(values, table_schema) ==
  [i \in 1..Len(values) |-> [col |-> table_schema[i], val |-> values[i], ok |-> TRUE]]

\* FillColumn testing nullability before the stored default: a nullable column
\* with a default gets a NULL.
FillColumn_NullFirst(schema_col, insert_columns, values) ==
  LET index == FindIndex(insert_columns, schema_col.name)
      null_ex == NullConstant(schema_col.type)
  IN IF index # 0
       THEN [col |-> schema_col, val |-> values[index], ok |-> TRUE]
     ELSE IF schema_col.nullable
       THEN [col |-> schema_col, val |-> null_ex, ok |-> TRUE]
     ELSE IF schema_col.stored # null_ex
       THEN [col |-> schema_col, val |-> schema_col.stored, ok |-> TRUE]
     ELSE [col |-> schema_col, val |-> null_ex, ok |-> FALSE]

\* Some insert columns: the value of one schema column, found in the row by
\* the column's index in the insert column list, else the stored default, else
\* a typed NULL; ok is FALSE when none of them provides a value.
FillColumn(schema_col, insert_columns, values) ==
  LET index == FindIndex(insert_columns, schema_col.name)
      null_ex == NullConstant(schema_col.type)
  IN IF index # 0
       THEN [col |-> schema_col, val |-> values[index], ok |-> TRUE]
     ELSE IF schema_col.stored # null_ex
       THEN [col |-> schema_col, val |-> schema_col.stored, ok |-> TRUE]
     ELSE IF schema_col.nullable
       THEN [col |-> schema_col, val |-> null_ex, ok |-> TRUE]
     ELSE [col |-> schema_col, val |-> null_ex, ok |-> FALSE]

\* OverwriteValues without the values->clear(): the schema-ordered values are
\* appended to the row as written.
OverwriteValues_NoClear(values, cols) ==
  values \o [i \in 1..Len(cols) |-> cols[i].val]

\* values->clear(); values->emplace_back(pair.second) for every pair
OverwriteValues(values, cols) ==
  [i \in 1..Len(cols) |-> cols[i].val]

\* The type validation of one schema-ordered value: the node left in the row
\* and the error code raised ("" when none).  A bound column of a select list
\* (kind "Col") keeps its type and must have the type of the schema column.
ValidateInsertValue(ins_col, val) ==
  LET ret_type == val.type
      expected_ret_type == ins_col.type
      afterDefault == IF val.kind = "Default"
                        THEN [ins_col.stored EXCEPT !.orig = val.orig]
                        ELSE val
      is_cast_expression == afterDefault.kind = "Cast"
      child == ValueExpr("Const", afterDefault.ctype, "Invalid", FALSE, afterDefault.orig)
      ins_val == IF is_cast_expression THEN child ELSE afterDefault
      promoted == CheckAndTryPromoteType(ins_val.type, expected_ret_type)
  IN IF val.kind = "Col"
       THEN [code |-> IF ret_type # expected_ret_type THEN DatatypeMismatch ELSE "", val |-> val]
     ELSE IF is_cast_expression /\ ret_type # expected_ret_type
       THEN [code |-> NumericValueOutOfRange, val |-> afterDefault]
     ELSE IF promoted = "Fail"
       THEN [code |-> DatatypeMismatch, val |-> ins_val]
     ELSE [code |-> "", val |-> [ins_val EXCEPT !.type = promoted]]

\* The whole function: the row it leaves and the error code it raises.
ValidateAndCorrectInsertValues(insert_columns, values, table_schema) ==
  IF ~InsertCountsOk(insert_columns, values, table_schema)
    THEN [code |-> SyntaxError, values |-> values]
  ELSE
    LET cols == IF Len(insert_columns) = 0
                  THEN SchemaOrderedCols(values, table_schema)
                  ELSE [i \in 1..Len(table_schema) |->
                          FillColumn(table_schema[i], insert_columns, values)]
        corrected == IF Len(insert_columns) = 0 THEN values
                     ELSE OverwriteValues(values, cols)
        checked == [i \in 1..Len(cols) |-> ValidateInsertValue(cols[i].col, cols[i].val)]
        failing == {i \in 1..Len(cols) : checked[i].code # ""}
        first == IF failing = {} THEN Len(cols) + 1
                 ELSE CHOOSE i \in failing : \A j \in failing : i <= j
    IN IF \E i \in 1..Len(cols) : ~cols[i].ok
         THEN [code |-> SyntaxError, values |-> values]
       ELSE [code |-> IF failing = {} THEN "" ELSE checked[first].code,
             values |-> [i \in 1..Len(corrected) |->
                           IF i < first THEN checked[i].val ELSE corrected[i]]]

\* The full, schema-ordered insert column list.
SchemaColumnNames(table_schema) ==
  [i \in 1..Len(table_schema) |-> table_schema[i].name]

\* BindNodeVisitor::Visit(InsertStatement) for a VALUES row: the statement it
\* leaves and the exception it raises.
VisitInsertStatement(cat, node) ==
  LET table_schema == cat[node.table]
      res == ValidateAndCorrectInsertValues(node.columns, node.values, table_schema)
  IN IF \E i \in 1..Len(node.columns) : ~ColumnInSchema(table_schema, node.columns[i])
       THEN [error |-> BinderException(UndefinedColumn, 0, 0), stmt |-> node]
     ELSE IF res.code # ""
       THEN [error |-> BinderException(res.code, 0, 0),
             stmt |-> [node EXCEPT !.values = res.values]]
     ELSE [error |-> NoError,
           stmt |-> [node EXCEPT !.values = res.values,
                                 !.columns = SchemaColumnNames(table_schema)]]

----------------------------------------------------------------------------
(* SELECT: expressions, catalog and BinderContext *)

\* parser::AliasType; serial 0 is the invalid serial number.
AliasType(name, serial) == [name |-> name, serial |-> serial]

NoAlias == AliasType("", 0)

\* An expression of a select list or an ORDER BY list.  kind is "Const"
\* (VALUE_CONSTANT), "Col" (COLUMN_VALUE) or "Star" (TABLE_STAR); val is the
\* value of an integer constant and twice the value of a Double constant;
\* table = "" is INVALID_TABLE_OID and colPos = 0 INVALID_COLUMN_OID.
Expr(kind, type, val, isNull, name, exprName, alias) ==
  [kind |-> kind, type |-> type, val |-> val, isNull |-> isNull, name |-> name,
   exprName |-> exprName, alias |-> alias, table |-> "", colPos |-> 0, depth |-> -1]

\* The tables of the database the SELECT statements are bound against.
SelectCatalog ==
  [n \in {"t", "s"} |->
     IF n = "t"
       THEN <<Column("a", "Integer", FALSE, FALSE), Column("b", "Varchar", TRUE, FALSE)>>
       ELSE <<Column("b", "Varchar", TRUE, FALSE), Column("c", "Boolean", TRUE, TRUE),
              Column("a", "Integer", FALSE, FALSE)>>]

\* BinderContext(upper_context): empty alias maps; the depth is the number of
\* contexts below it.
BinderContext(depth) ==
  [regular |-> <<>>, nested |-> <<>>, aliases |-> {}, depth |-> depth]

\* BinderContext::HasTables
HasTables(context) == context.regular # <<>> \/ context.nested # <<>>

\* The ColumnValueExpression made for column i of a regular table.
ColumnExpression(table, schema, i, depth) ==
  [Expr("Col", schema[i].type, 0, FALSE, schema[i].name, schema[i].name, NoAlias)
     EXCEPT !.table = table, !.colPos = i, !.depth = depth]

\* The ColumnValueExpression made for column i of a nested (derived or CTE) table.
NestedColumnExpression(entry, i, depth) ==
  [Expr("Col", entry.cols[i].type, 0, FALSE, entry.cols[i].alias.name,
        entry.cols[i].alias.name, NoAlias)
     EXCEPT !.table = entry.name, !.colPos = entry.cols[i].alias.serial, !.depth = depth]

RECURSIVE Flatten(_)
Flatten(seqs) ==
  IF seqs = <<>> THEN <<>> ELSE Head(seqs) \o Flatten(Tail(seqs))

\* BinderContext::GenerateAllColumnExpressions for a bare `*`: every column of
\* every regular table in alias insertion order, each table in schema order,
\* then the columns of the nested tables.
GenerateAllColumnExpressions(cat, context) ==
  Flatten([k \in 1..Len(context.regular) |->
             LET schema == cat[context.regular[k].table]
             IN [i \in 1..Len(schema) |->
                   ColumnExpression(context.regular[k].table, schema, i, context.depth)]])
  \o
  Flatten([k \in 1..Len(context.nested) |->
             [i \in 1..Len(context.nested[k].cols) |->
                NestedColumnExpression(context.nested[k], i, context.depth)]])

\* The columns named col_name that one context offers to an unqualified
\* column reference.
MatchesIn(cat, context, col_name) ==
  Flatten([k \in 1..Len(context.regular) |->
             LET schema == cat[context.regular[k].table]
             IN SelectSeq([i \in 1..Len(schema) |->
                             ColumnExpression(context.regular[k].table, schema, i, context.depth)],
                          LAMBDA e : e.name = col_name)])
  \o
  Flatten([k \in 1..Len(context.nested) |->
             SelectSeq([i \in 1..Len(context.nested[k].cols) |->
                          NestedColumnExpression(context.nested[k], i, context.depth)],
                       LAMBDA e : e.name = col_name)])

\* BinderContext::SetColumnPosTuple(expr): the contexts are searched from the
\* current one upwards; the result is "found" with the resolved column,
\* "ambiguous", or "none".
RECURSIVE SetColumnPosTuple(_, _, _)
SetColumnPosTuple(cat, contexts, col_name) ==
  IF contexts = <<>> THEN [res |-> "none", col |-> <<>>]
  ELSE LET m == MatchesIn(cat, contexts[Len(contexts)], col_name)
       IN IF Len(m) > 1 THEN [res |-> "ambiguous", col |-> <<>>]
          ELSE IF Len(m) = 1 THEN [res |-> "found", col |-> m]
          ELSE SetColumnPosTuple(cat, SubSeq(contexts, 1, Len(contexts) - 1), col_name)

----------------------------------------------------------------------------
(* SELECT: visiting expressions *)

AmbiguousColumn == "AmbiguousColumn"               \* ERRCODE_AMBIGUOUS_COLUMN
DuplicateAlias == "DuplicateAlias"                 \* ERRCODE_DUPLICATE_ALIAS

\* ConstantValueExpression::DeriveExpressionName: the alias when there is one;
\* a constant has no name of its own.
ConstantValueDeriveExpressionName(e) ==
  IF e.alias.name # "" THEN e.alias.name ELSE e.exprName

\* ColumnValueExpression::DeriveExpressionName: the alias when there is one,
\* else the column name.
ColumnValueDeriveExpressionName(e) ==
  IF e.alias.name # "" THEN e.alias.name ELSE e.name

\* select_element->DeriveExpressionName()
DeriveExpressionName(e) ==
  IF e.kind = "Col" THEN ColumnValueDeriveExpressionName(e)
  ELSE ConstantValueDeriveExpressionName(e)

\* Visit(ConstantValueExpression) of a select-list constant.  A NULL that no
\* parent gave a desired type is given the desired type Varchar first.
VisitConstant(e) ==
  LET desired_type == IF e.isNull THEN "Varchar" ELSE "Invalid"
      promoted == CheckAndTryPromoteType(e.type, desired_type)
  IN IF promoted = "Fail"
       THEN [code |-> DatatypeMismatch, expr |-> e]
       ELSE [code |-> "", expr |-> [e EXCEPT !.type = promoted]]

\* Visit(ColumnValueExpression) of a reference without table alias: a resolved
\* reference is left alone, an unresolved one is looked up in the contexts.
VisitColumnValue(cat, contexts, e) ==
  IF e.table # "" THEN [code |-> "", expr |-> e]
  ELSE LET r == SetColumnPosTuple(cat, contexts, e.name)
       IN IF contexts = <<>> \/ r.res = "none"
            THEN [code |-> UndefinedColumn, expr |-> e]
          ELSE IF r.res = "ambiguous"
            THEN [code |-> AmbiguousColumn, expr |-> e]
          ELSE [code |-> "",
                expr |-> [e EXCEPT !.type = r.col[1].type, !.table = r.col[1].table,
                                   !.colPos = r.col[1].colPos, !.depth = r.col[1].depth]]

\* expr->Accept(this) for the expression kinds of the model.
Accept(cat, contexts, e) ==
  IF e.kind = "Const" THEN VisitConstant(e)
  ELSE IF e.kind = "Col" THEN VisitColumnValue(cat, contexts, e)
  ELSE IF contexts = <<>> \/ ~HasTables(contexts[Len(contexts)])
    THEN [code |-> SyntaxError, expr |-> e]
  ELSE [code |-> "", expr |-> e]

\* The select-list loop testing context_->HasTables(), as Visit(StarExpression)
\* does, in place of node->GetSelectTable(): a star of a select without FROM
\* expands to the columns of the CTEs of its WITH clause.
VisitSelectElement_ContextTables(cat, contexts, select_element, hasSelectTable) ==
  IF select_element.kind = "Star"
    THEN IF ~HasTables(contexts[Len(contexts)])
           THEN [code |-> SyntaxError, out |-> <<>>]
           ELSE [code |-> "",
                 out |-> GenerateAllColumnExpressions(cat, contexts[Len(contexts)])]
    ELSE LET r == Accept(cat, contexts, select_element)
         IN IF r.code # "" THEN [code |-> r.code, out |-> <<>>]
            ELSE [code |-> "",
                  out |-> <<[r.expr EXCEPT !.exprName = DeriveExpressionName(r.expr)]>>]

\* One iteration of the select-list loop of Visit(SelectStatement): the
\* expressions it appends to new_select_list and the error code it raises.
VisitSelectElement(cat, contexts, select_element, hasSelectTable) ==
  IF select_element.kind = "Star"
    THEN IF ~hasSelectTable
           THEN [code |-> SyntaxError, out |-> <<>>]
           ELSE [code |-> "",
                 out |-> GenerateAllColumnExpressions(cat, contexts[Len(contexts)])]
    ELSE LET r == Accept(cat, contexts, select_element)
         IN IF r.code # "" THEN [code |-> r.code, out |-> <<>>]
            ELSE [code |-> "",
                  out |-> <<[r.expr EXCEPT !.exprName = DeriveExpressionName(r.expr)]>>]

\* The switch of UnifyOrderByExpression with the string and boolean types
\* among the integer cases.
IsIntegerType_WithLiterals(type) ==
  type \in {"TinyInt", "SmallInt", "Integer", "BigInt", "Varchar", "Boolean"}

\* The integer cases of the switch of UnifyOrderByExpression.
IsIntegerType(type) == type \in {"TinyInt", "SmallInt", "Integer", "BigInt"}

\* The int64 a Double converts to: truncation towards zero (val is twice the
\* Double's value).
TruncateReal(val) == IF val >= 0 THEN val \div 2 ELSE -((-val) \div 2)

\* UnifyOrderByItem without the test column_id < 1.
UnifyOrderByItem_NoLowerBound(e, select_items) ==
  IF e.kind = "Const" THEN
    IF ~(IsIntegerType(e.type) \/ e.type = "Double")
      THEN [code |-> SyntaxError, pos |-> 0, expr |-> e, oob |-> FALSE]
    ELSE
      LET column_id == IF IsIntegerType(e.type) THEN e.val ELSE TruncateReal(e.val)
      IN IF column_id > Len(select_items)
           THEN [code |-> UndefinedColumn, pos |-> column_id, expr |-> e, oob |-> FALSE]
           ELSE [code |-> "", pos |-> column_id,
                 expr |-> IF column_id \in 1..Len(select_items)
                            THEN select_items[column_id] ELSE e,
                 oob |-> column_id \notin 1..Len(select_items)]
  ELSE IF e.kind = "Col" /\ e.name # "" THEN
    LET matching == {k \in 1..Len(select_items) : select_items[k].exprName = e.name}
    IN [code |-> "", pos |-> 0,
        expr |-> IF matching = {} THEN e
                 ELSE select_items[CHOOSE k \in matching : \A j \in matching : k <= j],
        oob |-> FALSE]
  ELSE [code |-> "", pos |-> 0, expr |-> e, oob |-> FALSE]

\* The body of the loop of UnifyOrderByExpression for one ORDER BY item: the
\* item it leaves in the list, the error it raises, and whether select_items
\* was indexed out of range.  (The column references of the model carry no
\* table qualifier, so table_name is empty.)
UnifyOrderByItem(e, select_items) ==
  IF e.kind = "Const" THEN
    IF ~(IsIntegerType(e.type) \/ e.type = "Double")
      THEN [code |-> SyntaxError, pos |-> 0, expr |-> e, oob |-> FALSE]
    ELSE
      LET column_id == IF IsIntegerType(e.type) THEN e.val ELSE TruncateReal(e.val)
      IN IF column_id < 1 \/ column_id > Len(select_items)
           THEN [code |-> UndefinedColumn, pos |-> column_id, expr |-> e, oob |-> FALSE]
           ELSE [code |-> "", pos |-> column_id,
                 expr |-> IF column_id \in 1..Len(select_items)
                            THEN select_items[column_id] ELSE e,
                 oob |-> column_id \notin 1..Len(select_items)]
  ELSE IF e.kind = "Col" /\ e.name # "" THEN
    LET matching == {k \in 1..Len(select_items) : select_items[k].exprName = e.name}
    IN [code |-> "", pos |-> 0,
        expr |-> IF matching = {} THEN e
                 ELSE select_items[CHOOSE k \in matching : \A j \in matching : k <= j],
        oob |-> FALSE]
  ELSE [code |-> "", pos |-> 0, expr |-> e, oob |-> FALSE]

----------------------------------------------------------------------------
(* SELECT: Visit(SelectStatement) as a stack of activations *)

\* One activation of Visit(SelectStatement): the node it binds, its position,
\* the BinderContext it constructed, its loop indexes (w: WITH entry, i: select
\* element, o: ORDER BY item), new_select_list, what the caller does with the
\* node on return, and the node as found on entry (history).
Frame(node, role, depth) ==
  [node |-> node, pc |-> "with", context |-> BinderContext(depth), w |-> 1, i |-> 1,
   o |-> 1, new_select_list |-> <<>>, role |-> role, entry |-> node]

Top == frames[Len(frames)]

SetTop(f) == [frames EXCEPT ![Len(frames)] = f]

\* The chain context_, context_->GetUpperContext(), ... from the root up.
Contexts == [k \in 1..Len(frames) |-> frames[k].context]

Binding == pc = "binding" /\ frames # <<>>

\* throw BINDER_EXCEPTION(...): the bind call ends.
Raise(exc) ==
  /\ pc' = "error"
  /\ error' = exc
  /\ UNCHANGED <<others, catalog, stmt, input, firstBound, frames, sherpa, nextTempOid>>

\* SetUniqueTableAlias: the alias of a table reference, given a serial number
\* if it has none yet.
SetUniqueTableAlias(alias, serial) ==
  IF alias.serial = 0 THEN AliasType(alias.name, serial) ELSE alias

\* BindNameToNode on a SELECT statement: Visit(SelectStatement) constructs the
\* root context.
BindSelect ==
  /\ pc = "start"
  /\ stmt.kind = "SELECT"
  /\ frames' = <<Frame(stmt, "top", 0)>>
  /\ pc' = "binding"
  /\ UNCHANGED <<others, catalog, stmt, error, input, firstBound, sherpa, nextTempOid, oob>>

\* BindNameToNode called a second time, on the tree the first call bound: a
\* new BinderSherpa is made, the catalog accessor keeps minting new temporary
\* oids.
RebindSelect ==
  /\ pc = "done"
  /\ stmt.kind = "SELECT"
  /\ firstBound = <<>>
  /\ firstBound' = <<stmt>>
  /\ frames' = <<Frame(stmt, "top", 0)>>
  /\ sherpa' = [cte_table_names |-> {}, serial |-> 1]
  /\ pc' = "binding"
  /\ UNCHANGED <<others, catalog, stmt, error, input, nextTempOid, oob>>

\* WITH entry w is a CTE that is not inductive: its name is stored and the
\* table reference is visited, which binds the CTE's select a first time.
VisitCteFirst ==
  /\ Binding /\ Top.pc = "with" /\ Top.w <= Len(Top.node.with)
  /\ ~Top.node.with[Top.w].inductive
  /\ LET ref == Top.node.with[Top.w]
         alias == SetUniqueTableAlias(ref.alias, sherpa.serial)
         f == [Top EXCEPT !.pc = "cteAliases", !.node.with[Top.w].alias = alias,
                          !.context.aliases = @ \cup {alias}]
     IN /\ frames' = Append(SetTop(f), Frame(ref.select, "cteFirst", Top.context.depth + 1))
        /\ sherpa' = [cte_table_names |-> sherpa.cte_table_names \cup {ref.alias.name},
                      serial |-> IF ref.alias.serial = 0 THEN sherpa.serial + 1
                                 ELSE sherpa.serial]
  /\ UNCHANGED <<others, catalog, stmt, pc, error, input, firstBound, nextTempOid, oob>>

\* The visit of the base case of an inductive CTE without AddCTETableName.
VisitCteBase_NoTableName ==
  /\ Binding /\ Top.pc = "with" /\ Top.w <= Len(Top.node.with)
  /\ Top.node.with[Top.w].inductive
  /\ LET ref == Top.node.with[Top.w]
         f == [Top EXCEPT !.pc = "cteAliases"]
     IN /\ frames' = Append(SetTop(f),
                            Frame(ref.select.union[1], "cteBase", Top.context.depth + 1))
        /\ sherpa' = sherpa
  /\ UNCHANGED <<others, catalog, stmt, pc, error, input, firstBound, nextTempOid, oob>>

\* WITH entry w is an inductive CTE: its name is stored and the base case (the
\* union side of its select) is visited.
VisitCteBase ==
  /\ Binding /\ Top.pc = "with" /\ Top.w <= Len(Top.node.with)
  /\ Top.node.with[Top.w].inductive
  /\ LET ref == Top.node.with[Top.w]
         f == [Top EXCEPT !.pc = "cteAliases"]
     IN /\ frames' = Append(SetTop(f),
                            Frame(ref.select.union[1], "cteBase", Top.context.depth + 1))
        /\ sherpa' = [sherpa EXCEPT !.cte_table_names = @ \cup {ref.alias.name}]
  /\ UNCHANGED <<others, catalog, stmt, pc, error, input, firstBound, nextTempOid, oob>>

\* The WITH loop is over.
EndWith ==
  /\ Binding /\ Top.pc = "with" /\ Top.w > Len(Top.node.with)
  /\ frames' = SetTop([Top EXCEPT !.pc = "from"])
  /\ UNCHANGED <<others, catalog, stmt, pc, error, input, firstBound, sherpa, nextTempOid, oob>>

\* The alias-count test with >= in place of >.
CteAliasCountOk_Strict(num_aliases, num_columns) == ~(num_aliases >= num_columns)

\* The alias-count test of a WITH entry.
CteAliasCountOk(num_aliases, num_columns) == ~(num_aliases > num_columns)

\* CteColumnAliases without the ?column? placeholder.
CteColumnAliases_NoPlaceholder(column_aliases, columns, firstOid) ==
  [i \in 1..Len(columns) |->
     IF i <= Len(column_aliases)
       THEN AliasType(column_aliases[i].name, firstOid + i - 1)
       ELSE AliasType(columns[i].exprName, firstOid + i - 1)]

\* The column aliases of a CTE: the declared names first, then for every
\* further column its expression name, or ?column? when that is empty; each
\* with a serial number from GetNewTempOid.
CteColumnAliases(column_aliases, columns, firstOid) ==
  [i \in 1..Len(columns) |->
     IF i <= Len(column_aliases)
       THEN AliasType(column_aliases[i].name, firstOid + i - 1)
       ELSE LET new_alias == AliasType(columns[i].exprName, firstOid + i - 1)
            IN IF new_alias.name = ""
                 THEN AliasType("?column?", firstOid + i - 1)
                 ELSE new_alias]

\* columns[i]->SetAlias(aliases[i]) for every i both sequences have.
SetAliases(columns, aliases) ==
  [i \in 1..Len(columns) |->
     IF i <= Len(aliases) THEN [columns[i] EXCEPT !.alias = aliases[i]] ELSE columns[i]]

\* BinderContext::AddCTETable: the entry of the nested table alias map.
CteTableEntry(name, sel_cols, aliases) ==
  [name |-> name,
   cols |-> [i \in 1..Len(aliases) |-> [alias |-> aliases[i], type |-> sel_cols[i].type]]]

\* After the first visit of WITH entry w: the alias-count test, the column
\* aliases, the registration of the CTE in the context, and the visit of the
\* table reference, which binds the full body.  For an inductive CTE the
\* aliases are also set on the select columns of the full body, indexed by
\* alias position without a bounds test.
CteAliases ==
  /\ Binding /\ Top.pc = "cteAliases"
  /\ LET ref == Top.node.with[Top.w]
         sel_cols == IF ref.inductive THEN ref.select.union[1].cols ELSE ref.select.cols
         column_aliases == ref.cte_col_aliases
         aliases == CteColumnAliases(column_aliases, sel_cols, nextTempOid)
         outOfRange == ref.inductive /\ Len(aliases) > Len(ref.select.cols)
         select1 == IF ref.inductive
                      THEN [ref.select EXCEPT !.union[1].cols = SetAliases(@, aliases),
                                               !.cols = SetAliases(@, aliases)]
                      ELSE [ref.select EXCEPT !.cols = SetAliases(@, aliases)]
         alias == SetUniqueTableAlias(ref.alias, sherpa.serial)
         f == [Top EXCEPT !.pc = "with",
                          !.node.with[Top.w] = [ref EXCEPT !.alias = alias,
                                                           !.cte_col_aliases = aliases,
                                                           !.select = select1],
                          !.context.nested =
                             Append(@, CteTableEntry(ref.alias.name, sel_cols, aliases)),
                          !.context.aliases = @ \cup {alias}]
     IN IF ~CteAliasCountOk(Len(column_aliases), Len(sel_cols))
          THEN Raise(BinderException(SchemaMismatch, Len(sel_cols), Len(column_aliases)))
               /\ oob' = oob
        ELSE IF \E k \in 1..Len(Top.context.nested) : Top.context.nested[k].name = ref.alias.name
          THEN Raise(BinderException(DuplicateAlias, 0, 0)) /\ oob' = oob
        ELSE \/ /\ frames' = Append(SetTop(f), Frame(select1, "cteFull", Top.context.depth + 1))
                /\ sherpa' = [sherpa EXCEPT !.serial = IF ref.alias.serial = 0 THEN @ + 1 ELSE @]
                /\ nextTempOid' = nextTempOid + Len(aliases)
                /\ oob' = IF outOfRange THEN oob \cup {"cte"} ELSE oob
                /\ UNCHANGED <<others, catalog, stmt, pc, error, input, firstBound>>
             \/ /\ outOfRange
                /\ pc' = "fault"
                /\ oob' = oob \cup {"cte"}
                /\ UNCHANGED <<others, catalog, stmt, error, input, firstBound, frames, sherpa,
                               nextTempOid>>

\* Visit(SelectStatement) returns: context_ becomes the upper context and the
\* caller goes on with the bound node.
Return ==
  /\ Binding /\ Top.pc = "ret"
  /\ LET child == Top
         rest == SubSeq(frames, 1, Len(frames) - 1)
         parent == rest[Len(rest)]
         resumed ==
           IF child.role = "union"
             THEN [parent EXCEPT !.node.union = <<child.node>>]
           ELSE IF child.role = "cteFirst"
             THEN [parent EXCEPT !.node.with[parent.w].select = child.node]
           ELSE IF child.role = "cteBase"
             THEN [parent EXCEPT !.node.with[parent.w].select.union = <<child.node>>]
           ELSE [parent EXCEPT !.node.with[parent.w].select = child.node, !.w = @ + 1]
     IN IF child.role = "top"
          THEN /\ frames' = <<>>
               /\ stmt' = child.node
               /\ pc' = "done"
          ELSE /\ frames' = [rest EXCEPT ![Len(rest)] = resumed]
               /\ UNCHANGED <<stmt, pc>>
  /\ UNCHANGED <<others, catalog, error, input, firstBound, sherpa, nextTempOid, oob>>

\* BinderContext::AddCTETableAlias: the nested-table entry of the CTE, looked
\* up from the current context upwards (<<>> when no context has it).
RECURSIVE FindCteEntry(_, _)
FindCteEntry(contexts, cte_table_name) ==
  IF contexts = <<>> THEN <<>>
  ELSE LET nested == contexts[Len(contexts)].nested
           found == SelectSeq(nested, LAMBDA en : en.name = cte_table_name)
       IN IF found # <<>> THEN <<found[1]>>
          ELSE FindCteEntry(SubSeq(contexts, 1, Len(contexts) - 1), cte_table_name)

\* BinderUtil::ValidateWhereClause on a bound condition: the error code, ""
\* when the condition is accepted.  A condition has to be Boolean-valued.
ValidateWhereClause(e) == IF e.type = "Boolean" THEN "" ELSE SyntaxError

\* The FROM clause: Visit(TableRef) of a single table, which is a CTE of the
\* statement or a table of the catalog.
VisitFrom ==
  /\ Binding /\ Top.pc = "from"
  /\ IF Top.node.from = <<>>
       THEN /\ frames' = SetTop([Top EXCEPT !.pc = "where"])
            /\ UNCHANGED <<others, catalog, stmt, pc, error, input, firstBound, sherpa, nextTempOid, oob>>
       ELSE
         LET node == Top.node.from[1]
             alias == SetUniqueTableAlias(node.alias, sherpa.serial)
             entry == FindCteEntry(Contexts, node.name)
             named == [Top EXCEPT !.node.from[1].alias = alias,
                                  !.context.aliases = @ \cup {alias}, !.pc = "where"]
             go(f) ==
               /\ frames' = SetTop(f)
               /\ sherpa' = [sherpa EXCEPT !.serial = IF node.alias.serial = 0 THEN @ + 1 ELSE @]
               /\ UNCHANGED <<others, catalog, stmt, pc, error, input, firstBound, nextTempOid, oob>>
         IN IF node.name \in sherpa.cte_table_names
              THEN IF entry = <<>>
                     THEN Raise(BinderException(UndefinedTable, 0, 0)) /\ oob' = oob
                   ELSE IF \E k \in 1..Len(Top.context.nested) :
                             Top.context.nested[k].name = alias.name
                     THEN go(named)
                   ELSE go([named EXCEPT !.context.nested =
                                           Append(@, [name |-> alias.name, cols |-> entry[1].cols])])
            ELSE IF node.name \notin DOMAIN catalog
              THEN Raise(BinderException(UndefinedTable, 0, 0)) /\ oob' = oob
            ELSE go([named EXCEPT !.context.regular =
                                    Append(@, [alias |-> alias.name, table |-> node.name])])

\* WHERE: the condition is visited; BinderUtil::ValidateWhereClause then
\* accepts it or throws.
VisitWhere ==
  /\ Binding /\ Top.pc = "where"
  /\ IF Top.node.where = <<>>
       THEN /\ frames' = SetTop([Top EXCEPT !.pc = "limit"])
            /\ UNCHANGED <<others, catalog, stmt, pc, error, input, firstBound, sherpa,
                           nextTempOid, oob>>
       ELSE \E r \in {Accept(catalog, Contexts, Top.node.where[1])} :
              IF r.code # ""
                THEN Raise(BinderException(r.code, 0, 0)) /\ oob' = oob
              ELSE IF ValidateWhereClause(r.expr) # ""
                THEN Raise(BinderException(ValidateWhereClause(r.expr), 0, 0)) /\ oob' = oob
              ELSE /\ frames' = SetTop([Top EXCEPT !.node.where = <<r.expr>>, !.pc = "limit"])
                   /\ UNCHANGED <<others, catalog, stmt, pc, error, input, firstBound, sherpa,
                                  nextTempOid, oob>>

\* LIMIT: Visit(LimitDescription) binds nothing, and GROUP BY is skipped.
VisitLimit_SkipGroupBy ==
  /\ Binding /\ Top.pc = "limit"
  /\ frames' = SetTop([Top EXCEPT !.pc = "select"])
  /\ UNCHANGED <<others, catalog, stmt, pc, error, input, firstBound, sherpa, nextTempOid, oob>>

\* LIMIT: Visit(LimitDescription) binds nothing.
VisitLimit ==
  /\ Binding /\ Top.pc = "limit"
  /\ frames' = SetTop([Top EXCEPT !.pc = "groupby"])
  /\ UNCHANGED <<others, catalog, stmt, pc, error, input, firstBound, sherpa, nextTempOid, oob>>

\* GROUP BY <columns> [HAVING <condition>]
GroupByDescription(columns, having) == [columns |-> columns, having |-> having]

\* Visit(GroupByDescription): the columns, then HAVING; the first failure is
\* raised.
VisitGroupByDescription(cat, contexts, node) ==
  LET items == node.columns \o node.having
      visited == [k \in 1..Len(items) |-> Accept(cat, contexts, items[k])]
      failing == {k \in 1..Len(visited) : visited[k].code # ""}
      n == Len(node.columns)
  IN IF failing # {}
       THEN [code |-> visited[CHOOSE k \in failing : \A j \in failing : k <= j].code,
             node |-> node]
       ELSE [code |-> "",
             node |-> GroupByDescription([k \in 1..n |-> visited[k].expr],
                                         [k \in 1..Len(node.having) |-> visited[n + k].expr])]

\* GROUP BY, with HAVING.
VisitGroupBy ==
  /\ Binding /\ Top.pc = "groupby"
  /\ IF Top.node.groupBy = <<>>
       THEN /\ frames' = SetTop([Top EXCEPT !.pc = "select"])
            /\ UNCHANGED <<others, catalog, stmt, pc, error, input, firstBound, sherpa,
                           nextTempOid, oob>>
       ELSE \E r \in {VisitGroupByDescription(catalog, Contexts, Top.node.groupBy[1])} :
              IF r.code # ""
                THEN Raise(BinderException(r.code, 0, 0)) /\ oob' = oob
                ELSE /\ frames' = SetTop([Top EXCEPT !.node.groupBy = <<r.node>>,
                                                     !.pc = "select"])
                     /\ UNCHANGED <<others, catalog, stmt, pc, error, input, firstBound, sherpa,
                                    nextTempOid, oob>>

\* One iteration of the select-list loop.
VisitSelectColumn ==
  /\ Binding /\ Top.pc = "select" /\ Top.i <= Len(Top.node.cols)
  /\ LET r == VisitSelectElement(catalog, Contexts, Top.node.cols[Top.i], Top.node.from # <<>>)
     IN IF r.code # ""
          THEN Raise(BinderException(r.code, 0, 0)) /\ oob' = oob
          ELSE /\ frames' = SetTop([Top EXCEPT !.new_select_list = @ \o r.out, !.i = @ + 1])
               /\ UNCHANGED <<others, catalog, stmt, pc, error, input, firstBound, sherpa,
                              nextTempOid, oob>>

\* The select-list loop ending without node->SetSelectColumns: the node keeps
\* the select list as parsed.
SetSelectColumns_KeepParsed ==
  /\ Binding /\ Top.pc = "select" /\ Top.i > Len(Top.node.cols)
  /\ frames' = SetTop([Top EXCEPT !.pc = "union"])
  /\ UNCHANGED <<others, catalog, stmt, pc, error, input, firstBound, sherpa, nextTempOid, oob>>

\* node->SetSelectColumns(new_select_list)
SetSelectColumns ==
  /\ Binding /\ Top.pc = "select" /\ Top.i > Len(Top.node.cols)
  /\ frames' = SetTop([Top EXCEPT !.node.cols = Top.new_select_list, !.pc = "union"])
  /\ UNCHANGED <<others, catalog, stmt, pc, error, input, firstBound, sherpa, nextTempOid, oob>>

\* The union side is visited, if there is one.
VisitUnion ==
  /\ Binding /\ Top.pc = "union"
  /\ IF Top.node.union = <<>>
       THEN frames' = SetTop([Top EXCEPT !.pc = "orderby", !.node.depth = Top.context.depth])
       ELSE frames' = Append(SetTop([Top EXCEPT !.pc = "unionCheck"]),
                             Frame(Top.node.union[1], "union", Top.context.depth + 1))
  /\ UNCHANGED <<others, catalog, stmt, pc, error, input, firstBound, sherpa, nextTempOid, oob>>

\* The schema test of a union comparing the sizes only.
UnionSchemasMatch_SizeOnly(new_select_list, union_cols) ==
  Len(new_select_list) = Len(union_cols)

\* The schema test of a union: same number of columns and the same return
\* value type at every position.
UnionSchemasMatch(new_select_list, union_cols) ==
  /\ Len(new_select_list) = Len(union_cols)
  /\ \A ind \in 1..Len(new_select_list) : new_select_list[ind].type = union_cols[ind].type

\* After the union side is bound.
CheckUnion ==
  /\ Binding /\ Top.pc = "unionCheck"
  /\ IF ~UnionSchemasMatch(Top.new_select_list, Top.node.union[1].cols)
       THEN Raise(BinderException(DatatypeMismatch, 0, 0)) /\ oob' = oob
       ELSE /\ frames' = SetTop([Top EXCEPT !.pc = "orderby", !.node.depth = Top.context.depth])
            /\ UNCHANGED <<others, catalog, stmt, pc, error, input, firstBound, sherpa, nextTempOid, oob>>

\* One iteration of the loop of UnifyOrderByExpression.
UnifyOrderBy ==
  /\ Binding /\ Top.pc = "orderby" /\ Top.o <= Len(Top.node.orderBy)
  /\ LET r == UnifyOrderByItem(Top.node.orderBy[Top.o], Top.node.cols)
     IN IF r.code # ""
          THEN Raise(BinderException(r.code, r.pos, 0)) /\ oob' = IF r.oob THEN oob \cup {"orderby"} ELSE oob
          ELSE /\ frames' = SetTop([Top EXCEPT !.node.orderBy[Top.o] = r.expr, !.o = @ + 1])
               /\ oob' = IF r.oob THEN oob \cup {"orderby"} ELSE oob
               /\ UNCHANGED <<others, catalog, stmt, pc, error, input, firstBound, sherpa, nextTempOid>>

\* Visit(OrderByDescription): every item is visited; the first failure is raised.
VisitOrderBy ==
  /\ Binding /\ Top.pc = "orderby" /\ Top.o > Len(Top.node.orderBy)
  /\ LET visited == [k \in 1..Len(Top.node.orderBy) |->
                       Accept(catalog, Contexts, Top.node.orderBy[k])]
         failing == {k \in 1..Len(visited) : visited[k].code # ""}
     IN IF failing # {}
          THEN Raise(BinderException(visited[CHOOSE k \in failing : \A j \in failing : k <= j].code,
                                     0, 0)) /\ oob' = oob
          ELSE /\ frames' = SetTop([Top EXCEPT !.node.orderBy =
                                                  [k \in 1..Len(visited) |-> visited[k].expr],
                                               !.pc = "ret"])
               /\ UNCHANGED <<others, catalog, stmt, pc, error, input, firstBound, sherpa,
                              nextTempOid, oob>>

----------------------------------------------------------------------------
(* SELECT: inputs and specification *)

SeqsFromTo(S, lo, hi) == UNION {[1..k -> S] : k \in lo..hi}

IntConst(v) == Expr("Const", "Integer", v, FALSE, "", "", NoAlias)
DoubleConst(twice) == Expr("Const", "Double", twice, FALSE, "", "", NoAlias)
StrConst == Expr("Const", "Varchar", 0, FALSE, "", "", NoAlias)
BoolConst == Expr("Const", "Boolean", 0, FALSE, "", "", NoAlias)
NullConst == Expr("Const", "Invalid", 0, TRUE, "", "", NoAlias)
AliasedConst(name) == Expr("Const", "Integer", 1, FALSE, "", "", AliasType(name, 0))
ColRef(name) == Expr("Col", "Invalid", 0, FALSE, name, "", NoAlias)
StarExpr == Expr("Star", "Invalid", 0, FALSE, "", "", NoAlias)

TableRef(name) == [name |-> name, alias |-> AliasType(name, 0)]

SelectStatement(with, from, cols, union, orderBy) ==
  [kind |-> "SELECT", with |-> with, from |-> from, where |-> <<>>, limit |-> <<>>,
   groupBy |-> <<>>, cols |-> cols, union |-> union, orderBy |-> orderBy, depth |-> -1]

\* The statement with a WHERE condition, a LIMIT and a GROUP BY description
\* (each a sequence of at most one element).
SelectWithClauses(select, where, limit, groupBy) ==
  [select EXCEPT !.where = where, !.limit = limit, !.groupBy = groupBy]

CteRef(name, aliasNames, select, inductive) ==
  [alias |-> AliasType(name, 0),
   cte_col_aliases |-> [i \in 1..Len(aliasNames) |-> AliasType(aliasNames[i], 0)],
   select |-> select, inductive |-> inductive]

\* SELECT <list> [FROM t | s | nope]
PlainSelects ==
  {SelectStatement(<<>>, from, cols, <<>>, <<>>) :
     from \in {<<>>, <<TableRef("t")>>, <<TableRef("s")>>, <<TableRef("nope")>>},
     cols \in SeqsFromTo({IntConst(1), StrConst, NullConst, AliasedConst("y"), ColRef("a"),
                          ColRef("b"), ColRef("zz"), StarExpr}, 1, MaxSel)}

UnionSides ==
  {SelectStatement(<<>>, from, cols, <<>>, <<>>) :
     from \in {<<>>, <<TableRef("t")>>},
     cols \in SeqsFromTo({IntConst(1), StrConst, ColRef("a"), StarExpr}, 1, MaxSel)}

\* <side> UNION <side>
UnionSelects ==
  {[l EXCEPT !.union = <<r>>] :
     l \in UnionSides, r \in {u \in UnionSides : \A i \in 1..Len(u.cols) : u.cols[i].kind # "Col"}}

\* The ordinals written in ORDER BY lists.
Ordinals == (-1)..3

OrderByItems ==
  {IntConst(n) : n \in Ordinals} \cup {DoubleConst(3), StrConst, BoolConst, ColRef("a")}

\* SELECT <list> FROM t ORDER BY <items>
OrderBySelects ==
  {SelectStatement(<<>>, <<TableRef("t")>>, cols, <<>>, orderBy) :
     cols \in SeqsFromTo({IntConst(1), ColRef("a"), StarExpr}, 1, MaxSel),
     orderBy \in SeqsFromTo(OrderByItems, 1, MaxOrder)}

AliasNames == <<"x", "y", "z", "w">>

DeclaredAliases == {SubSeq(AliasNames, 1, k) : k \in 0..(MaxSel + 1)}

CteMainSelects ==
  {SelectStatement(<<>>, <<TableRef("c")>>, <<StarExpr>>, <<>>, <<>>),
   SelectStatement(<<>>, <<>>, <<StarExpr>>, <<>>, <<>>),
   SelectStatement(<<>>, <<TableRef("c")>>, <<IntConst(1)>>, <<>>, <<>>)}

\* WITH c(<aliases>) AS (SELECT <list> [FROM t]) <main>
CteSelects ==
  {[m EXCEPT !.with = <<CteRef("c", al, SelectStatement(<<>>, from, cols, <<>>, <<>>), FALSE)>>] :
     m \in CteMainSelects, al \in DeclaredAliases, from \in {<<>>, <<TableRef("t")>>},
     cols \in SeqsFromTo({IntConst(1), AliasedConst("y"), ColRef("a"), StarExpr}, 1, MaxSel)}

\* WITH RECURSIVE c(<aliases>) AS (SELECT <base> UNION ALL SELECT <list> FROM c)
\* SELECT * FROM c
InductiveCteSelects ==
  {[SelectStatement(<<>>, <<TableRef("c")>>, <<StarExpr>>, <<>>, <<>>) EXCEPT !.with =
      <<CteRef("c", al,
               SelectStatement(<<>>, <<TableRef("c")>>, cols,
                               <<SelectStatement(<<>>, <<>>, base, <<>>, <<>>)>>, <<>>),
               TRUE)>>] :
     al \in DeclaredAliases,
     base \in SeqsFromTo({IntConst(1), AliasedConst("y")}, 1, MaxSel),
     cols \in SeqsFromTo({IntConst(1), ColRef("x"), StarExpr}, 1, MaxSel)}

\* SELECT 3 FROM t ORDER BY 1
OrdinalOfConstantSelects ==
  {SelectStatement(<<>>, <<TableRef("t")>>, <<IntConst(3)>>, <<>>, <<IntConst(1)>>)}

\* SELECT a FROM <t | nope> [WHERE <cond>] [LIMIT 1] [GROUP BY <col> [HAVING <cond>]]
\* [ORDER BY <item>]
ClauseSelects ==
  {SelectWithClauses(SelectStatement(<<>>, from, <<ColRef("a")>>, <<>>, orderBy),
                     where, limit, groupBy) :
     from \in {<<TableRef("t")>>, <<TableRef("nope")>>},
     orderBy \in {<<>>, <<IntConst(1)>>, <<ColRef("zz")>>},
     where \in {<<>>, <<BoolConst>>, <<ColRef("zz")>>},
     limit \in {<<>>, <<1>>},
     groupBy \in {<<>>} \cup
       {<<GroupByDescription(<<c>>, having)>> :
          c \in {ColRef("a"), ColRef("zz")}, having \in {<<>>, <<BoolConst>>, <<ColRef("zz")>>}}}

ParsedSelects ==
  PlainSelects \cup UnionSelects \cup OrderBySelects \cup CteSelects \cup InductiveCteSelects
    \cup OrdinalOfConstantSelects \cup ClauseSelects

Init ==
  /\ catalog = SelectCatalog
  /\ stmt \in ParsedSelects
  /\ input = stmt
  /\ pc = "start"
  /\ error = NoError
  /\ firstBound = <<>>
  /\ frames = <<>>
  /\ sherpa = [cte_table_names |-> {}, serial |-> 1]
  /\ nextTempOid = 1
  /\ oob = {}
  /\ optimizer = NoOptimizer
  /\ txn = NoTxn
  /\ result = NoResult

Next ==
  \/ BindSelect
  \/ RebindSelect
  \/ VisitCteFirst
  \/ VisitCteBase
  \/ EndWith
  \/ CteAliases
  \/ Return
  \/ VisitFrom
  \/ VisitWhere
  \/ VisitLimit
  \/ VisitGroupBy
  \/ VisitSelectColumn
  \/ SetSelectColumns
  \/ VisitUnion
  \/ CheckUnion
  \/ UnifyOrderBy
  \/ VisitOrderBy

Spec == Init /\ [][Next]_vars

----------------------------------------------------------------------------
(* INSERT: inputs, actions and specification *)

ColumnNames == <<"c1", "c2", "c3", "c4">>

\* Column i of the target table is an Integer column at odd positions and a
\* Varchar column at even ones; nullability and default vary.
ColumnTypeAt(i) == IF i % 2 = 1 THEN "Integer" ELSE "Varchar"

SeqsOfLen(S, n) == [1..n -> S]

SeqsUpTo(S, n) == UNION {SeqsOfLen(S, k) : k \in 0..n}

InsertSchemas ==
  UNION {{[i \in 1..n |-> Column(ColumnNames[i], ColumnTypeAt(i), f[i].nullable, f[i].hasDefault)] :
            f \in [1..n -> [nullable : BOOLEAN, hasDefault : BOOLEAN]]} : n \in 1..MaxCols}

\* What the parser writes at position i of a VALUES row: 1, NULL, DEFAULT or
\* CAST(1 AS INTEGER).
ParsedValues(i) ==
  {ValueExpr("Const", "Integer", "Invalid", FALSE, i),
   ValueExpr("Const", "Invalid", "Invalid", TRUE, i),
   ValueExpr("Default", "Invalid", "Invalid", FALSE, i),
   ValueExpr("Cast", "Integer", "Integer", FALSE, i)}

ParsedRows(n) ==
  UNION {{r \in [1..k -> UNION {ParsedValues(i) : i \in 1..k}] :
            \A i \in 1..k : r[i].orig = i} : k \in 1..n}

\* The insert column list names columns of the schema or the unknown "zz".
ParsedInsertColumns(schema) ==
  SeqsUpTo({schema[i].name : i \in 1..Len(schema)} \cup {"zz"}, Len(schema))

InsertInit ==
  /\ \E schema \in InsertSchemas :
       /\ catalog = [t \in {"t"} |-> schema]
       /\ \E cols \in ParsedInsertColumns(schema), row \in ParsedRows(Len(schema)) :
            stmt = [kind |-> "INSERT", table |-> "t", columns |-> cols, values |-> row]
  /\ input = stmt
  /\ pc = "start"
  /\ error = NoError
  /\ firstBound = <<>>
  /\ frames = <<>>
  /\ sherpa = [cte_table_names |-> {}, serial |-> 1]
  /\ nextTempOid = 1
  /\ oob = {}
  /\ optimizer = NoOptimizer
  /\ txn = NoTxn
  /\ result = NoResult

\* BindNameToNode on an INSERT statement.
BindInsert ==
  /\ pc = "start"
  /\ stmt.kind = "INSERT"
  /\ LET r == VisitInsertStatement(catalog, stmt)
     IN /\ stmt' = r.stmt
        /\ error' = r.error
        /\ pc' = IF r.error.code = "" THEN "done" ELSE "error"
        /\ firstBound' = r.stmt.values
  /\ UNCHANGED <<others, catalog, input, frames, sherpa, nextTempOid, oob>>

\* BindNameToNode on the statement a first bind left behind (a statement that
\* is executed again without a cached plan is bound again).
RebindInsert ==
  /\ pc = "done"
  /\ stmt.kind = "INSERT"
  /\ LET r == VisitInsertStatement(catalog, stmt)
     IN /\ stmt' = r.stmt
        /\ error' = r.error
        /\ pc' = IF r.error.code = "" THEN "rebound" ELSE "rebindError"
  /\ UNCHANGED <<others, catalog, input, firstBound, frames, sherpa, nextTempOid, oob>>

InsertNext == BindInsert \/ RebindInsert

SpecInsert == InsertInit /\ [][InsertNext]_vars

----------------------------------------------------------------------------
(* INSERT: properties *)

InsertSchema == catalog["t"]

\* The input statement written with the full, schema-ordered column list.
FullListInput == [input EXCEPT !.columns = SchemaColumnNames(InsertSchema)]

\* Position i of the row derives from position i of the row as written.
OrderKept(values) ==
  /\ Len(values) = Len(input.values)
  /\ \A i \in 1..Len(values) : values[i].orig = i

\* C3: an INSERT without a column list binds to the same insert-column list,
\* the same row and the same outcome as the INSERT written with the full
\* schema-ordered list; a row under the full list keeps its count and order,
\* and a second bind of the bound statement succeeds and changes nothing.
C3_InsertNoListEquivalent ==
  stmt.kind = "INSERT" =>
    /\ (pc \in {"done", "error"} /\ input.columns = <<>>) =>
         LET r == VisitInsertStatement(catalog, FullListInput)
         IN /\ r.error = error
            /\ r.stmt.values = stmt.values
            /\ pc = "done" => r.stmt = stmt
    /\ (pc = "done" /\ input.columns \in {<<>>, SchemaColumnNames(InsertSchema)}) =>
         /\ stmt.columns = SchemaColumnNames(InsertSchema)
         /\ OrderKept(stmt.values)
    /\ pc = "rebound" =>
         /\ stmt.values = firstBound
         /\ stmt.columns = SchemaColumnNames(InsertSchema)
    /\ pc # "rebindError"

C3_Witness ==
  /\ pc = "rebound"
  /\ input.columns = <<>>
  /\ Len(input.values) = 2
  /\ input.values[2].kind = "Default"
  /\ input.values[1].kind = "Cast"

AbsentFromList(i) ==
  \A j \in 1..Len(input.columns) : input.columns[j] # InsertSchema[i].name

HasStoredDefault(i) == ~InsertSchema[i].stored.isNull

\* C4: with an explicit column list of schema columns, a column absent from
\* the list gets a copy of its stored default, else a typed NULL if nullable,
\* else the bind fails with SyntaxError; a bound row has one value per schema
\* column in schema order.
C4_AbsentColumnsFilled ==
  (/\ stmt.kind = "INSERT"
   /\ pc \in {"done", "error"}
   /\ input.columns # <<>>
   /\ \A j \in 1..Len(input.columns) : ColumnInSchema(InsertSchema, input.columns[j])) =>
    /\ (\E i \in 1..Len(InsertSchema) :
          AbsentFromList(i) /\ ~HasStoredDefault(i) /\ ~InsertSchema[i].nullable) =>
         (pc = "error" /\ error.code = SyntaxError)
    /\ pc = "done" =>
         /\ Len(stmt.values) = Len(InsertSchema)
         /\ \A i \in 1..Len(InsertSchema) :
              IF AbsentFromList(i)
                THEN IF HasStoredDefault(i)
                       THEN stmt.values[i] = InsertSchema[i].stored
                       ELSE stmt.values[i] = NullConstant(InsertSchema[i].type)
                ELSE /\ stmt.values[i].orig \in 1..Len(input.columns)
                     /\ input.columns[stmt.values[i].orig] = InsertSchema[i].name
                     /\ \A j \in 1..(stmt.values[i].orig - 1) :
                          input.columns[j] # InsertSchema[i].name

C4_Witness ==
  /\ stmt.kind = "INSERT"
  /\ pc = "done"
  /\ Len(InsertSchema) = 2
  /\ input.columns = <<"c2">>
  /\ HasStoredDefault(1)
  /\ InsertSchema[1].nullable

\* C5: an INSERT without a column list whose row holds DEFAULT at the position
\* of a non-nullable column that has no stored default fails with SyntaxError.
C5_DefaultMarkerRejected ==
  (/\ stmt.kind = "INSERT"
   /\ pc \in {"done", "error"}
   /\ input.columns = <<>>
   /\ \E i \in 1..Len(input.values) :
        /\ i <= Len(InsertSchema)
        /\ input.values[i].kind = "Default"
        /\ ~InsertSchema[i].nullable
        /\ ~HasStoredDefault(i)) =>
    (pc = "error" /\ error.code = SyntaxError)

----------------------------------------------------------------------------
(* SELECT: properties *)

\* The bind call is over.
Ended == pc \in {"done", "error", "fault"}

\* The position of the first `*` of a select list (0 when it has none).
FirstStar(cols) ==
  LET stars == {i \in 1..Len(cols) : cols[i].kind = "Star"}
  IN IF stars = {} THEN 0 ELSE CHOOSE i \in stars : \A j \in stars : i <= j

StarWithoutFrom(node) == node.from = <<>> /\ FirstStar(node.cols) > 0

StarFrom(t) == SelectStatement(<<>>, <<TableRef(t)>>, <<StarExpr>>, <<>>, <<>>)

\* C2: for every table t of the catalog, binding SELECT * FROM t succeeds and
\* leaves in the select list exactly one resolved column reference per column
\* of t's schema, in schema order, and no star.
C2_StarExpandsToSchema ==
  stmt.kind = "SELECT" =>
    \A t \in DOMAIN catalog :
      (input = StarFrom(t) /\ Ended) =>
        /\ pc = "done"
        /\ Len(stmt.cols) = Len(catalog[t])
        /\ \A i \in 1..Len(stmt.cols) :
             /\ stmt.cols[i].kind = "Col"
             /\ stmt.cols[i].name = catalog[t][i].name
             /\ stmt.cols[i].type = catalog[t][i].type
             /\ stmt.cols[i].table = t
             /\ stmt.cols[i].colPos = i

C2_Witness ==
  /\ stmt.kind = "SELECT"
  /\ pc = "done"
  /\ input = StarFrom("s")
  /\ Len(stmt.cols) = 3
  /\ stmt.cols[3].name = "a"

\* C6: an ORDER BY item that is an integer constant N, under a bound select
\* list of length len: once the unification loop has passed it, 1 <= N <= len
\* and the item is the N-th select-list expression; when the loop fails at it,
\* N is outside 1..len and the error is UndefinedColumn carrying N; the select
\* list is never indexed out of range by the loop.
C6_OrderByOrdinal ==
  stmt.kind = "SELECT" =>
    /\ "orderby" \notin oob
    /\ \A k \in 1..Len(frames) :
         LET f == frames[k]
         IN f.pc = "orderby" =>
              /\ \A j \in 1..(f.o - 1) :
                   LET e == f.entry.orderBy[j]
                   IN (e.kind = "Const" /\ e.type = "Integer") =>
                        /\ e.val \in 1..Len(f.node.cols)
                        /\ f.node.orderBy[j] = f.node.cols[e.val]
              /\ (pc = "error" /\ k = Len(frames) /\ f.o <= Len(f.entry.orderBy)) =>
                   LET e == f.entry.orderBy[f.o]
                   IN (e.kind = "Const" /\ e.type = "Integer") =>
                        /\ e.val \notin 1..Len(f.node.cols)
                        /\ error = BinderException(UndefinedColumn, e.val, 0)

C6_Witness ==
  /\ stmt.kind = "SELECT"
  /\ Binding
  /\ Top.pc = "orderby"
  /\ Top.o = 2
  /\ Top.entry.orderBy[1] = IntConst(2)
  /\ Len(Top.node.cols) = 2
  /\ Top.node.orderBy[1] = Top.node.cols[2]
  /\ Top.node.orderBy[1].kind = "Col"

\* A constant whose type is none of the integer types and not Double.
NonNumericConstant(e) ==
  e.kind = "Const" /\ e.type \notin {"TinyInt", "SmallInt", "Integer", "BigInt", "Double"}

\* The unification loop of the innermost activation failed at an ORDER BY item
\* that is a non-numeric constant.
FailedAtNonNumeric ==
  /\ pc = "error"
  /\ Top.pc = "orderby"
  /\ Top.o <= Len(Top.entry.orderBy)
  /\ NonNumericConstant(Top.entry.orderBy[Top.o])

\* C7 as stated: an ORDER BY item that is a constant of a non-numeric type
\* makes binding fail with UndefinedColumn.
C7_NonNumericUndefinedColumn ==
  (stmt.kind = "SELECT" /\ FailedAtNonNumeric) => error.code = UndefinedColumn

\* C7: an ORDER BY item that is a constant of a non-numeric type makes binding
\* fail: the unification loop never gets past it, and the error it raises at
\* it is SyntaxError.
C7_NonNumericSyntaxError ==
  stmt.kind = "SELECT" =>
    /\ FailedAtNonNumeric => error.code = SyntaxError
    /\ \A k \in 1..Len(frames) :
         frames[k].pc \in {"orderby", "ret"} =>
           \A j \in 1..(frames[k].o - 1) : ~NonNumericConstant(frames[k].entry.orderBy[j])
    /\ pc = "done" =>
         \A j \in 1..Len(input.orderBy) : ~NonNumericConstant(input.orderBy[j])

C7_Witness ==
  /\ stmt.kind = "SELECT"
  /\ FailedAtNonNumeric
  /\ error.code = SyntaxError
  /\ Top.o = 2
  /\ Top.entry.orderBy[2] = BoolConst

\* The select whose columns a WITH entry's aliases are counted against: the
\* base case of an inductive CTE, else the CTE's select.
CteSelect(ref) == IF ref.inductive THEN ref.select.union[1] ELSE ref.select

\* C8: at the alias-count test of a WITH entry, binding fails exactly when the
\* declared column aliases outnumber the bound select columns (the base case's
\* for an inductive CTE); the error is SchemaMismatch carrying both counts, and
\* SchemaMismatch is raised nowhere else.
C8_CteAliasCount ==
  stmt.kind = "SELECT" =>
    /\ (pc = "error" /\ Top.pc = "cteAliases") =>
         LET num_aliases == Len(Top.entry.with[Top.w].cte_col_aliases)
             num_columns == Len(CteSelect(Top.node.with[Top.w]).cols)
         IN /\ num_aliases > num_columns
            /\ error = BinderException(SchemaMismatch, num_columns, num_aliases)
    /\ \A k \in 1..(Len(frames) - 1) :
         frames[k + 1].role = "cteFull" =>
           Len(frames[k].entry.with[frames[k].w].cte_col_aliases)
             <= Len(CteSelect(frames[k].node.with[frames[k].w]).cols)
    /\ error.code = SchemaMismatch => (pc = "error" /\ Top.pc = "cteAliases")

C8_Witness ==
  /\ stmt.kind = "SELECT"
  /\ pc = "error"
  /\ error = BinderException(SchemaMismatch, 2, 3)
  /\ input.with[1].select.cols = <<StarExpr>>

\* The names the columns of a parsed select have by themselves: the alias,
\* else the column name of a column reference, else none; a star stands for
\* the columns of the table of the FROM clause.
NaturalNames(cat, select) ==
  Flatten([i \in 1..Len(select.cols) |->
             LET e == select.cols[i]
             IN IF e.kind = "Star"
                  THEN IF select.from # <<>> /\ select.from[1].name \in DOMAIN cat
                         THEN SchemaColumnNames(cat[select.from[1].name])
                         ELSE <<>>
                ELSE IF e.alias.name # "" THEN <<e.alias.name>>
                ELSE IF e.kind = "Col" THEN <<e.name>>
                ELSE <<"">>])

\* The first WITH entry once it is bound (<<>> before).
BoundCte ==
  IF pc = "done" /\ stmt.with # <<>> THEN <<stmt.with[1]>>
  ELSE IF frames # <<>> /\ frames[1].w > 1 THEN <<frames[1].node.with[1]>>
  ELSE <<>>

\* C9: once a CTE with k declared column aliases is bound, k is at most the
\* number n of its select columns and its alias list has n entries: the first
\* k carry the declared names, the others the column's own name or ?column?
\* when it has none; the serial numbers are minted ones and pairwise
\* different, and select column i carries alias i.
C9_CteColumnAliases ==
  (stmt.kind = "SELECT" /\ BoundCte # <<>>) =>
    LET ref == BoundCte[1]
        declared == input.with[1].cte_col_aliases
        natural == NaturalNames(catalog, CteSelect(input.with[1]))
        cols == CteSelect(ref).cols
        aliases == ref.cte_col_aliases
    IN /\ Len(declared) <= Len(cols)
       /\ Len(aliases) = Len(cols)
       /\ Len(natural) = Len(cols)
       /\ \A i \in 1..Len(aliases) :
            /\ i <= Len(declared) => aliases[i].name = declared[i].name
            /\ i > Len(declared) =>
                 aliases[i].name = IF natural[i] = "" THEN "?column?" ELSE natural[i]
            /\ aliases[i].serial \in 1..(nextTempOid - 1)
            /\ \A j \in 1..Len(aliases) : j # i => aliases[j].serial # aliases[i].serial
            /\ cols[i].alias = aliases[i]

C9_Witness ==
  /\ stmt.kind = "SELECT"
  /\ pc = "done"
  /\ input.with # <<>>
  /\ input.with[1].cte_col_aliases = <<AliasType("x", 0)>>
  /\ input.with[1].select.cols = <<IntConst(1), IntConst(1)>>
  /\ stmt.with[1].cte_col_aliases[1].name = "x"
  /\ stmt.with[1].cte_col_aliases[2].name = "?column?"
  /\ Len(stmt.cols) = 2

\* Two select lists of the same length with the same type at every position.
SameSchemas(left, right) ==
  /\ Len(left) = Len(right)
  /\ \A i \in 1..Len(left) : left[i].type = right[i].type

\* C10: once both sides of a union are bound, binding fails with
\* DatatypeMismatch if and only if the two bound select lists differ in length
\* or in the type at some position; DatatypeMismatch is raised nowhere else.
C10_UnionMismatch ==
  stmt.kind = "SELECT" =>
    /\ (pc = "error" /\ Top.pc = "unionCheck") =>
         /\ error.code = DatatypeMismatch
         /\ ~SameSchemas(Top.node.cols, Top.node.union[1].cols)
    /\ error.code = DatatypeMismatch => (pc = "error" /\ Top.pc = "unionCheck")
    /\ \A k \in 1..Len(frames) :
         (frames[k].node.union # <<>> /\ frames[k].pc \in {"orderby", "ret"}) =>
           SameSchemas(frames[k].node.cols, frames[k].node.union[1].cols)
    /\ (pc = "done" /\ stmt.union # <<>>) => SameSchemas(stmt.cols, stmt.union[1].cols)

C10_Witness ==
  /\ stmt.kind = "SELECT"
  /\ pc = "error"
  /\ error.code = DatatypeMismatch
  /\ Top.pc = "unionCheck"
  /\ Len(Top.node.cols) = Len(Top.node.union[1].cols)
  /\ Top.node.cols[1].type = "Integer"
  /\ Top.node.union[1].cols[1].type = "Varchar"

\* What the bind resolved in one expression: table and column ids, the serial
\* number of the alias and the return type.
ResolvedExpr(e) ==
  [table |-> e.table, colPos |-> e.colPos, serial |-> e.alias.serial, type |-> e.type]

\* What the bind resolved in a SELECT statement: its table alias, the
\* expressions of its select list and ORDER BY list, its union side, and the
\* column aliases and body of every WITH entry.
RECURSIVE ResolvedSelect(_)
ResolvedSelect(node) ==
  [from |-> [k \in 1..Len(node.from) |-> node.from[k].alias],
   cols |-> [k \in 1..Len(node.cols) |-> ResolvedExpr(node.cols[k])],
   orderBy |-> [k \in 1..Len(node.orderBy) |-> ResolvedExpr(node.orderBy[k])],
   union |-> [k \in 1..Len(node.union) |-> ResolvedSelect(node.union[k])],
   with |-> [k \in 1..Len(node.with) |->
               [alias |-> node.with[k].alias,
                cte_col_aliases |-> node.with[k].cte_col_aliases,
                select |-> ResolvedSelect(node.with[k].select)]]]

\* C11: a second bind of the tree the first bind of a SELECT produced succeeds,
\* and leaves every expression with the table and column ids, the alias
\* serial numbers and the return types the first bind left.
C11_RebindSameIdsAndTypes ==
  (stmt.kind = "SELECT" /\ firstBound # <<>>) =>
    /\ pc \notin {"error", "fault"}
    /\ pc = "done" => ResolvedSelect(stmt) = ResolvedSelect(firstBound[1])

----------------------------------------------------------------------------
(* QueryToOperatorTransformer (src/src/optimizer/query_to_operator_transformer.cpp) *)
(* run on a bound SELECT: FROM, WHERE with sub-selects, Filter, aggregation.        *)

\* Largest number of conjuncts of the WHERE clause of the transformed query.
MaxConj == 2

NotImplemented == "NotImplemented"
OptimizerError == "OptimizerException"

\* The comparison types Visit(ComparisonExpression) unnests with a single join.
CompareTypes == {"=", "<>", ">", ">=", "<", "<="}

\* Bound expressions as the transformer sees them; depth is the depth the
\* binder derived (-1 for an expression without a column).
ColumnValueExpression(table, column, depth) ==
  [kind |-> "COLUMN_VALUE", table |-> table, column |-> column, depth |-> depth]

ConstantValueExpression(v) == [kind |-> "VALUE_CONSTANT", value |-> v, depth |-> -1]

AggregateExpression(table, column, depth) ==
  [kind |-> "AGGREGATE", table |-> table, column |-> column, depth |-> depth]

SubqueryExpression(subselect) ==
  [kind |-> "ROW_SUBQUERY", subselect |-> subselect, depth |-> subselect.depth]

ComparisonExpression(type, left, right) ==
  [kind |-> "COMPARE", type |-> type, children |-> <<left, right>>]

OperatorExpression(type, children) ==
  [kind |-> "OPERATOR", type |-> type, children |-> children, depth |-> -1]

\* A bound SELECT: from is a table name or "" (no FROM), where the conjuncts
\* of the select condition (<<>> when there is none), groupBy <<>> or the one
\* GROUP BY description (its columns and the conjuncts of HAVING), distinct
\* the DISTINCT flag.
GroupedSelect(cols, from, where, depth, groupBy, distinct) ==
  [kind |-> "SELECT", cols |-> cols, from |-> from, where |-> where, depth |-> depth,
   groupBy |-> groupBy, distinct |-> distinct]

BoundSelect(cols, from, where, depth) == GroupedSelect(cols, from, where, depth, <<>>, FALSE)

\* An OperatorNode: the logical operator and its children.
OperatorNode(contents, children) == [contents |-> contents, children |-> children]

LogicalGet(table) == [op |-> "LogicalGet", table |-> table, predicates |-> <<>>]
LogicalFilter(predicates) == [op |-> "LogicalFilter", table |-> "", predicates |-> predicates]
LogicalSingleJoin == [op |-> "LogicalSingleJoin", table |-> "", predicates |-> <<>>]
LogicalMarkJoin == [op |-> "LogicalMarkJoin", table |-> "", predicates |-> <<>>]
\* LogicalAggregateAndGroupBy::Make(columns), and Make() without columns.
LogicalAggregateAndGroupByMake(columns) ==
  [op |-> "LogicalAggregateAndGroupBy", table |-> "", predicates |-> <<>>,
   columns |-> columns]

LogicalAggregateAndGroupBy == LogicalAggregateAndGroupByMake(<<>>)

\* AbstractExpression::HasSubquery of an operand or of a comparison.
HasSubquery(expr) ==
  IF expr.kind \in {"COMPARE", "OPERATOR"}
    THEN \E c \in 1..Len(expr.children) : expr.children[c].kind = "ROW_SUBQUERY"
    ELSE expr.kind = "ROW_SUBQUERY"

\* AbstractExpression::GetDepth of a comparison: the smallest depth of a child
\* that has one.
ComparisonDepth(expr) ==
  LET ds == {expr.children[c].depth : c \in 1..Len(expr.children)} \ {-1}
  IN IF ds = {} THEN -1 ELSE CHOOSE d \in ds : \A e \in ds : d <= e

\* ExpressionUtil::GetAggregateExprs: the aggregate expressions of expr, found
\* in expr itself and, recursively, in its children.
RECURSIVE GetAggregateExprs(_)
GetAggregateExprs(expr) ==
  IF expr.kind = "AGGREGATE" THEN {expr}
  ELSE IF expr.kind \in {"OPERATOR", "COMPARE"}
    THEN UNION {GetAggregateExprs(expr.children[c]) : c \in 1..Len(expr.children)}
  ELSE {}

\* RequireAggregation throws when there is no GROUP BY and the select list
\* mixes elements with an aggregate and elements without one.
RequireAggregationThrows(op) ==
  /\ op.groupBy = <<>>
  /\ \E i \in 1..Len(op.cols) : GetAggregateExprs(op.cols[i]) # {}
  /\ \E i \in 1..Len(op.cols) : GetAggregateExprs(op.cols[i]) = {}

\* The value RequireAggregation returns when it does not throw.
RequireAggregation_IgnoreGroupBy(op) ==
  \E i \in 1..Len(op.cols) : GetAggregateExprs(op.cols[i]) # {}

RequireAggregation(op) ==
  IF op.groupBy # <<>> THEN TRUE
  ELSE \E i \in 1..Len(op.cols) : GetAggregateExprs(op.cols[i]) # {}

IsSupportedConjunctivePredicate(expr) ==
  IF ~HasSubquery(expr) THEN TRUE
  ELSE IF /\ expr.type = "IN"
          /\ expr.children[1].kind # "ROW_SUBQUERY"
          /\ expr.children[2].kind = "ROW_SUBQUERY" THEN TRUE
  ELSE IF /\ expr.type = "EXISTS"
          /\ expr.children[1].kind = "ROW_SUBQUERY" THEN TRUE
  ELSE IF expr.type \in CompareTypes
    THEN \/ (~HasSubquery(expr.children[1]) /\ expr.children[2].kind = "ROW_SUBQUERY")
         \/ (~HasSubquery(expr.children[2]) /\ expr.children[1].kind = "ROW_SUBQUERY")
  ELSE FALSE

\* IsSupportedSubSelect: no aggregation, or every conjunct of lesser depth is
\* outer column = expression of the depth of the sub-select.
IsSupportedSubSelect_AnyComparison(op) ==
  IF ~RequireAggregation(op) THEN TRUE
  ELSE \A k \in 1..Len(op.where) :
         LET pred == op.where[k]
         IN ComparisonDepth(pred) < op.depth =>
              \/ (pred.children[2].depth = op.depth /\ pred.children[1].kind = "COLUMN_VALUE")
              \/ (pred.children[1].depth = op.depth /\ pred.children[2].kind = "COLUMN_VALUE")

IsSupportedSubSelect(op) ==
  IF ~RequireAggregation(op) THEN TRUE
  ELSE \A k \in 1..Len(op.where) :
         LET pred == op.where[k]
         IN ComparisonDepth(pred) < op.depth =>
              /\ pred.type = "="
              /\ \/ (pred.children[2].depth = op.depth /\ pred.children[1].kind = "COLUMN_VALUE")
                 \/ (pred.children[1].depth = op.depth /\ pred.children[2].kind = "COLUMN_VALUE")

\* What a transformer visit hands back: the thrown exception ("" when none),
\* output_expr_, and the visited node as the visit left it.
Visited(code, output_expr, node) == [code |-> code, output_expr |-> output_expr, node |-> node]

\* The value of a visit, named once: Only({F(r) : r \in {visit}}) is F of
\* what the visit handed back.
Only(S) == CHOOSE x \in S : TRUE

RECURSIVE TransformSelect(_)

\* GenerateSubqueryTree(expr, child_id, single_join) with output_expr_ =
\* output_expr; done is the value returned.
GenerateSubqueryTree_SubqueryFirst(output_expr, expr, child_id, single_join) ==
  LET subquery_expr == expr.children[child_id]
      sub_select == subquery_expr.subselect
      none == [done |-> FALSE, code |-> "", output_expr |-> output_expr, node |-> expr]
      join == IF single_join THEN LogicalSingleJoin ELSE LogicalMarkJoin
  IN IF subquery_expr.kind # "ROW_SUBQUERY" THEN none
     ELSE IF RequireAggregationThrows(sub_select) THEN [none EXCEPT !.code = OptimizerError]
     ELSE IF ~IsSupportedSubSelect(sub_select) THEN [none EXCEPT !.code = NotImplemented]
     ELSE IF Len(sub_select.cols) # 1 THEN [none EXCEPT !.code = NotImplemented]
     ELSE Only({IF sub.code # "" THEN [none EXCEPT !.code = sub.code]
                ELSE [done |-> TRUE,
                      code |-> "",
                      output_expr |-> OperatorNode(join, <<sub.output_expr, output_expr>>),
                      node |-> [expr EXCEPT !.children[child_id] = sub.node.cols[1]]] :
                sub \in {TransformSelect(sub_select)}})

GenerateSubqueryTree(output_expr, expr, child_id, single_join) ==
  LET subquery_expr == expr.children[child_id]
      sub_select == subquery_expr.subselect
      none == [done |-> FALSE, code |-> "", output_expr |-> output_expr, node |-> expr]
      join == IF single_join THEN LogicalSingleJoin ELSE LogicalMarkJoin
  IN IF subquery_expr.kind # "ROW_SUBQUERY" THEN none
     ELSE IF RequireAggregationThrows(sub_select) THEN [none EXCEPT !.code = OptimizerError]
     ELSE IF ~IsSupportedSubSelect(sub_select) THEN [none EXCEPT !.code = NotImplemented]
     ELSE IF Len(sub_select.cols) # 1 THEN [none EXCEPT !.code = NotImplemented]
     ELSE Only({IF sub.code # "" THEN [none EXCEPT !.code = sub.code]
                ELSE [done |-> TRUE,
                      code |-> "",
                      output_expr |-> OperatorNode(join, <<output_expr, sub.output_expr>>),
                      node |-> [expr EXCEPT !.children[child_id] = sub.node.cols[1]]] :
                sub \in {TransformSelect(sub_select)}})

\* Visit(ComparisonExpression) with output_expr_ = output_expr.
VisitComparisonExpression(output_expr, expr) ==
  IF expr.type = "IN"
    THEN Only({Visited(r.code, r.output_expr, r.node) :
               r \in {GenerateSubqueryTree(output_expr, expr, 2, FALSE)}})
  ELSE IF /\ expr.children[1].kind = "ROW_SUBQUERY"
          /\ expr.children[2].kind = "ROW_SUBQUERY"
    THEN Visited(NotImplemented, output_expr, expr)
  ELSE Only({IF r0.done \/ r0.code # ""
               THEN Visited(r0.code, r0.output_expr, r0.node)
               ELSE Only({Visited(r1.code, r1.output_expr, r1.node) :
                          r1 \in {GenerateSubqueryTree(output_expr, expr, 2, TRUE)}}) :
             r0 \in {GenerateSubqueryTree(output_expr, expr, 1, TRUE)}})

\* Visit(OperatorExpression) with output_expr_ = output_expr: an EXISTS whose
\* sub-select was unnested becomes IS NOT NULL.
VisitOperatorExpression_KeepExists(output_expr, expr) ==
  IF expr.type = "EXISTS"
    THEN Only({Visited(r.code, r.output_expr, r.node) :
               r \in {GenerateSubqueryTree(output_expr, expr, 1, FALSE)}})
    ELSE Visited("", output_expr, expr)

VisitOperatorExpression(output_expr, expr) ==
  IF expr.type = "EXISTS"
    THEN Only({Visited(r.code, r.output_expr,
                       IF r.done THEN [r.node EXCEPT !.type = "IS_NOT_NULL"] ELSE r.node) :
               r \in {GenerateSubqueryTree(output_expr, expr, 1, FALSE)}})
    ELSE Visited("", output_expr, expr)

\* expr->Accept on one conjunct: the visit method of its class.
AcceptConjunct(output_expr, expr) ==
  IF expr.kind = "OPERATOR" THEN VisitOperatorExpression(output_expr, expr)
  ELSE VisitComparisonExpression(output_expr, expr)

\* expr->Accept of CollectPredicates: the conjuncts from position j on are
\* visited in order, each on the tree the earlier ones left.
RECURSIVE AcceptPredicates(_, _, _)
AcceptPredicates(output_expr, where, j) ==
  IF j > Len(where) THEN Visited("", output_expr, where)
  ELSE Only({IF r.code # "" THEN Visited(r.code, r.output_expr, where)
             ELSE Only({AcceptPredicates(r.output_expr, rewritten, j + 1) :
                        rewritten \in {[where EXCEPT ![j] = r.node]}}) :
             r \in {AcceptConjunct(output_expr, where[j])}})

\* Visit(TableRef) of a single table, and the placeholder of a SELECT without
\* FROM.
VisitTableRef(from) == OperatorNode(LogicalGet(from), <<>>)

\* The Filter of lines 161-168 over output_expr_.
FilterOver(output_expr, predicates) ==
  IF predicates = <<>> THEN output_expr
  ELSE OperatorNode(LogicalFilter(predicates), <<output_expr>>)

\* Lines 170-216: the plain aggregation, the aggregation of GROUP BY with the
\* Filter of HAVING over it, or the aggregation a DISTINCT is turned into.
AggregationOver(op, output_expr) ==
  IF RequireAggregation(op)
    THEN IF op.groupBy = <<>>
           THEN OperatorNode(LogicalAggregateAndGroupBy, <<output_expr>>)
           ELSE FilterOver(OperatorNode(LogicalAggregateAndGroupByMake(op.groupBy[1].columns),
                                        <<output_expr>>),
                           op.groupBy[1].having)
  ELSE IF op.distinct
    THEN OperatorNode(LogicalAggregateAndGroupByMake(op.cols), <<output_expr>>)
  ELSE output_expr

\* Visit(SelectStatement) of a sub-select, start to end.
TransformSelect(op) ==
  IF \E k \in 1..Len(op.where) : ~IsSupportedConjunctivePredicate(op.where[k])
    THEN Visited(NotImplemented, VisitTableRef(op.from), op)
  ELSE Only({IF r.code # "" THEN Visited(r.code, r.output_expr, op)
             ELSE IF RequireAggregationThrows(op)
               THEN Visited(OptimizerError, FilterOver(r.output_expr, r.node), op)
             ELSE Visited("", AggregationOver(op, FilterOver(r.output_expr, r.node)),
                          [op EXCEPT !.where = r.node]) :
             r \in {AcceptPredicates(VisitTableRef(op.from), op.where, 1)}})

\* The transformer's own state: output_expr_, predicates_, the conjunct the
\* visit of the select condition is at, output_expr_ as it was before the last
\* conjunct was visited, and the exception thrown.
Optimizer(output_expr, predicates, j, prev, code) ==
  [output_expr_ |-> output_expr, predicates_ |-> predicates, j |-> j, prev |-> prev,
   code |-> code]

Transforming == stmt.kind = "SELECT" /\ optimizer # NoOptimizer

\* ConvertToOpExpression up to the FROM clause of the statement (lines 146-154).
TransformFrom ==
  /\ pc = "start"
  /\ optimizer = NoOptimizer
  /\ optimizer' = Optimizer(<<VisitTableRef(stmt.from)>>, <<>>, 0, <<>>, "")
  /\ pc' = "predicates"
  /\ UNCHANGED <<catalog, stmt, error, input, firstBound, frames, sherpa, nextTempOid, oob,
                 txn, result>>

\* CollectPredicates: every conjunct must be supported before any is visited.
CheckPredicates ==
  /\ pc = "predicates"
  /\ IF \E k \in 1..Len(stmt.where) : ~IsSupportedConjunctivePredicate(stmt.where[k])
       THEN /\ pc' = "error"
            /\ optimizer' = [optimizer EXCEPT !.code = NotImplemented]
       ELSE /\ pc' = "accept"
            /\ optimizer' = [optimizer EXCEPT !.j = 1]
  /\ UNCHANGED <<catalog, stmt, error, input, firstBound, frames, sherpa, nextTempOid, oob,
                 txn, result>>

\* expr->Accept reaches the next conjunct of the select condition.
AcceptPredicate ==
  /\ pc = "accept"
  /\ optimizer.j <= Len(stmt.where)
  /\ \E r \in {AcceptConjunct(optimizer.output_expr_[1], stmt.where[optimizer.j])} :
        IF r.code # ""
          THEN /\ pc' = "error"
               /\ optimizer' = [optimizer EXCEPT !.code = r.code]
               /\ UNCHANGED stmt
          ELSE /\ pc' = "accept"
               /\ optimizer' = [optimizer EXCEPT !.output_expr_ = <<r.output_expr>>,
                                                 !.prev = optimizer.output_expr_,
                                                 !.j = @ + 1]
               /\ stmt' = [stmt EXCEPT !.where[optimizer.j] = r.node]
  /\ UNCHANGED <<catalog, error, input, firstBound, frames, sherpa, nextTempOid, oob,
                 txn, result>>

\* ExtractPredicates: the rewritten conjuncts become predicates_.
ExtractPredicates ==
  /\ pc = "accept"
  /\ optimizer.j > Len(stmt.where)
  /\ optimizer' = [optimizer EXCEPT !.predicates_ = stmt.where]
  /\ pc' = "filter"
  /\ UNCHANGED <<catalog, stmt, error, input, firstBound, frames, sherpa, nextTempOid, oob,
                 txn, result>>

\* Lines 161-214: the Filter over output_expr_, then the aggregation.
MakeFilter ==
  /\ pc = "filter"
  /\ \E filtered \in {FilterOver(optimizer.output_expr_[1], optimizer.predicates_)} :
        IF RequireAggregationThrows(stmt)
          THEN /\ pc' = "error"
               /\ optimizer' = [optimizer EXCEPT !.output_expr_ = <<filtered>>,
                                                 !.predicates_ = <<>>,
                                                 !.code = OptimizerError]
          ELSE /\ pc' = "done"
               /\ optimizer' =
                    [optimizer EXCEPT
                       !.output_expr_ = <<AggregationOver(stmt, filtered)>>,
                       !.predicates_ = <<>>]
  /\ UNCHANGED <<catalog, stmt, error, input, firstBound, frames, sherpa, nextTempOid, oob,
                 txn, result>>

(* Inputs of the transformer *)

\* SELECT d FROM u
InnermostSelect == BoundSelect(<<ColumnValueExpression("u", "d", 2)>>, "u", <<>>, 2)

\* The select lists of the sub-selects over s.
SubSelectLists ==
  {<<ColumnValueExpression("s", "b", 1)>>,
   <<ColumnValueExpression("s", "b", 1), ColumnValueExpression("s", "c", 1)>>,
   <<AggregateExpression("s", "b", 1)>>}

\* The select conditions of the sub-selects over s: none, local, correlated
\* with =, correlated with <, and one with a sub-select of its own.
SubSelectConditions ==
  {<<>>,
   <<ComparisonExpression("=", ColumnValueExpression("s", "b", 1), ConstantValueExpression(1))>>,
   <<ComparisonExpression("=", ColumnValueExpression("t", "a", 0),
                          ColumnValueExpression("s", "b", 1))>>,
   <<ComparisonExpression("<", ColumnValueExpression("t", "a", 0),
                          ColumnValueExpression("s", "b", 1))>>,
   <<ComparisonExpression("=", ColumnValueExpression("s", "c", 1),
                          SubqueryExpression(InnermostSelect))>>}

SubSelects ==
  {BoundSelect(cols, "s", where, 1) : cols \in SubSelectLists, where \in SubSelectConditions}

Operands ==
  {ColumnValueExpression("t", "a", 0), ConstantValueExpression(1)}
    \cup {SubqueryExpression(sub) : sub \in SubSelects}

FirstConjuncts ==
  {ComparisonExpression(type, l, r) :
     type \in CompareTypes \cup {"IN"}, l \in Operands, r \in Operands}

\* The conjuncts after the first: without a sub-select, and with one on
\* either side.
LaterConjuncts ==
  {ComparisonExpression("<", ColumnValueExpression("t", "a", 0), ConstantValueExpression(1)),
   ComparisonExpression(">", ColumnValueExpression("t", "a", 0),
                        SubqueryExpression(InnermostSelect)),
   ComparisonExpression("=", SubqueryExpression(InnermostSelect),
                        ColumnValueExpression("t", "a", 0))}

SelectConditions ==
  {<<>>} \cup
  UNION {{<<first>> \o rest : first \in FirstConjuncts, rest \in SeqsOfLen(LaterConjuncts, n)} :
           n \in 0..(MaxConj - 1)}

TransformInputs ==
  {BoundSelect(cols, "t", where, 0) :
     cols \in {<<ColumnValueExpression("t", "a", 0)>>,
               <<AggregateExpression("t", "a", 0)>>,
               <<AggregateExpression("t", "a", 0), ColumnValueExpression("t", "a", 0)>>},
     where \in SelectConditions}

TransformInit ==
  /\ catalog = SelectCatalog
  /\ stmt \in TransformInputs
  /\ input = stmt
  /\ pc = "start"
  /\ error = NoError
  /\ firstBound = <<>>
  /\ frames = <<>>
  /\ sherpa = [cte_table_names |-> {}, serial |-> 1]
  /\ nextTempOid = 1
  /\ oob = {}
  /\ optimizer = NoOptimizer
  /\ txn = NoTxn
  /\ result = NoResult

TransformNext ==
  \/ TransformFrom
  \/ CheckPredicates
  \/ AcceptPredicate
  \/ ExtractPredicates
  \/ MakeFilter

SpecTransform == TransformInit /\ [][TransformNext]_vars

----------------------------------------------------------------------------
(* Properties of the transformer *)

\* The operand positions of a comparison that hold a sub-select.
SubqueryOperands(expr) == {c \in 1..2 : expr.children[c].kind = "ROW_SUBQUERY"}

\* A comparison with =, <>, <, <=, >, >= and a sub-select as exactly one operand.
ScalarSubqueryComparison(expr) ==
  expr.type \in CompareTypes /\ Cardinality(SubqueryOperands(expr)) = 1

\* The operators from a node down its first children.
RECURSIVE SpineOps(_)
SpineOps(node) ==
  <<node.contents.op>> \o (IF node.children = <<>> THEN <<>> ELSE SpineOps(node.children[1]))

\* The joins the conjuncts up to position k ask for, the last one first.
RECURSIVE JoinsOf(_, _)
JoinsOf(where, k) ==
  IF k = 0 THEN <<>>
  ELSE (IF ScalarSubqueryComparison(where[k]) THEN <<"LogicalSingleJoin">>
        ELSE IF SubqueryOperands(where[k]) # {} THEN <<"LogicalMarkJoin">>
        ELSE <<>>) \o JoinsOf(where, k - 1)

\* The root of the finished tree below the aggregation of the query itself.
BelowAggregation(node) ==
  IF node.contents.op = "LogicalAggregateAndGroupBy" THEN node.children[1] ELSE node

\* C12: once a comparison (=, <>, <, <=, >, >=) of the select condition with a
\* sub-select as exactly one operand has been transformed, output_expr_ is a
\* Single-Join whose first child is the tree built before the comparison was
\* visited and whose second child is the tree of the sub-select, the sub-select
\* operand is replaced by the one select-list expression of the sub-select and
\* the other operand is kept; in the finished tree the Filter that holds the
\* rewritten predicates is above every join made for the select condition.
C12_SingleJoinForScalarSubquery ==
  Transforming =>
    /\ (pc = "accept" /\ optimizer.j > 1 /\ ScalarSubqueryComparison(input.where[optimizer.j - 1])) =>
         LET orig == input.where[optimizer.j - 1]
             c == CHOOSE c \in SubqueryOperands(orig) : TRUE
             sub == orig.children[c].subselect
             join == optimizer.output_expr_[1]
         IN /\ join.contents.op = "LogicalSingleJoin"
            /\ Len(join.children) = 2
            /\ join.children[1] = optimizer.prev[1]
            /\ join.children[2] = TransformSelect(sub).output_expr
            /\ stmt.where[optimizer.j - 1].children[c] = sub.cols[1]
            /\ stmt.where[optimizer.j - 1].children[3 - c] = orig.children[3 - c]
            /\ stmt.where[optimizer.j - 1].type = orig.type
    /\ (pc = "done" /\ \E k \in 1..Len(input.where) : ScalarSubqueryComparison(input.where[k])) =>
         LET root == BelowAggregation(optimizer.output_expr_[1])
         IN /\ root.contents.op = "LogicalFilter"
            /\ root.contents.predicates = stmt.where
            /\ Len(root.children) = 1
            /\ SpineOps(root.children[1]) =
                 JoinsOf(input.where, Len(input.where)) \o <<"LogicalGet">>
            /\ \A k \in 1..Len(stmt.where) : SubqueryOperands(stmt.where[k]) = {}

\* SELECT a FROM t WHERE a = (SELECT b FROM s) is transformed to a Filter on
\* t.a = s.b over the Single-Join of the scans of t and s.
C12_Witness ==
  /\ Transforming
  /\ pc = "done"
  /\ input.cols = <<ColumnValueExpression("t", "a", 0)>>
  /\ input.where =
       <<ComparisonExpression("=", ColumnValueExpression("t", "a", 0),
           SubqueryExpression(BoundSelect(<<ColumnValueExpression("s", "b", 1)>>, "s", <<>>, 1)))>>
  /\ optimizer.output_expr_ =
       <<OperatorNode(
           LogicalFilter(<<ComparisonExpression("=", ColumnValueExpression("t", "a", 0),
                                                ColumnValueExpression("s", "b", 1))>>),
           <<OperatorNode(LogicalSingleJoin,
                          <<OperatorNode(LogicalGet("t"), <<>>),
                            OperatorNode(LogicalGet("s"), <<>>)>>)>>)>>

----------------------------------------------------------------------------
(* UPDATE, DELETE and DROP: BindNameToNode under TrafficCop::BindQuery *)
(* (src/src/binder/bind_node_visitor.cpp, src/src/traffic_cop/traffic_cop.cpp) *)

\* Largest number of assignments of an UPDATE statement.
MaxSet == 1

UndefinedObject == "UndefinedObject"
UndefinedDatabase == "UndefinedDatabase"
FeatureNotSupported == "FeatureNotSupported"

\* The ways a bind call can end that are no BinderException: an out-of-range
\* access that crashes, a failed NOISEPAGE_ASSERT, an exception of another
\* class.
OutOfRangeAccess == "OutOfRangeAccess"
AssertionFailure == "AssertionFailure"
UntypedException == "std::out_of_range"

BinderErrorCodes ==
  {SyntaxError, UndefinedColumn, UndefinedTable, SchemaMismatch, DatatypeMismatch,
   NumericValueOutOfRange, UndefinedObject, UndefinedDatabase, FeatureNotSupported}

\* An expression of a WHERE clause or of an assignment.  id stands for the
\* address of the node (the key of the sherpa's map), type for the return
\* value type, idx for the index of a parameter placeholder.
Node(id, kind, type, name, idx, children) ==
  [id |-> id, kind |-> kind, type |-> type, name |-> name, idx |-> idx, children |-> children]

\* BinderSherpa: the desired types set so far, the parameter vector (<<>> is
\* nullptr), the parameter types recorded, and the order in which visits
\* began, desired types were set and visits returned.  build says whether
\* NOISEPAGE_ASSERT is compiled in, garbage what a read outside the parameter
\* vector yields ("crash" or the type found there), faults what undefined
\* behaviour the bind ran into.
BinderSherpa(parameters, build, garbage) ==
  [desired |-> <<>>, parameters |-> parameters,
   desired_parameter_types |-> [k \in 1..Len(parameters) |-> "Invalid"],
   build |-> build, garbage |-> garbage, faults |-> {}, events |-> <<>>]

Event(what, id) == [what |-> what, id |-> id]

Log(sh, what, id) == [sh EXCEPT !.events = Append(@, Event(what, id))]

\* BinderSherpa::GetDesiredType
GetDesiredType(sh, id) ==
  IF \E k \in 1..Len(sh.desired) : sh.desired[k].id = id
    THEN LET k == CHOOSE k \in 1..Len(sh.desired) :
                    sh.desired[k].id = id /\ \A j \in (k + 1)..Len(sh.desired) : sh.desired[j].id # id
         IN sh.desired[k].type
    ELSE "Invalid"

\* BinderSherpa::SetDesiredType
SetDesiredType(sh, id, type) ==
  Log([sh EXCEPT !.desired = Append(@, [id |-> id, type |-> type])], "set", id)

\* BinderSherpa::CheckDesiredType: the node's type answers the desired type.
CheckDesiredType(sh, expr) ==
  CheckAndTryPromoteType(expr.type, GetDesiredType(sh, expr.id)) # "Fail"

\* The common type SetDesiredTypePair computes for two operand types.
CommonType(left, right) ==
  IF left = right THEN left
  ELSE IF left = "Invalid" THEN right
  ELSE IF right = "Invalid" THEN left
  ELSE IF {left, right} = {"Integer", "Double"} THEN "Double"
  ELSE "Fail"

\* What a visit hands back: the code of the exception thrown ("" when none),
\* the node as the visit left it and the sherpa.
Bound(code, node, sh) == [code |-> code, node |-> node, sh |-> sh]

\* Visit(ColumnValueExpression), lines 666-719, for an unqualified column and
\* the one table of the context.
VisitColumnValueExpression_UndefinedTable(schema, sh, expr) ==
  IF expr.type = "Invalid" /\ ~ColumnInSchema(schema, expr.name)
    THEN Bound(UndefinedTable, expr, sh)
  ELSE LET desired_type == GetDesiredType(sh, expr.id)
           resolved ==
             IF expr.type # "Invalid" THEN expr
             ELSE [expr EXCEPT
                     !.type = schema[FindIndex(SchemaColumnNames(schema), expr.name)].type]
           final == IF desired_type = "Invalid" THEN resolved.type ELSE desired_type
       IN Only({IF ~CheckDesiredType(sh2, resolved)
                  THEN Bound(DatatypeMismatch, resolved, sh2)
                  ELSE Bound("", resolved, sh2) :
                sh2 \in {SetDesiredType(sh, expr.id, final)}})

VisitColumnValueExpression(schema, sh, expr) ==
  IF expr.type = "Invalid" /\ ~ColumnInSchema(schema, expr.name)
    THEN Bound(UndefinedColumn, expr, sh)
  ELSE LET desired_type == GetDesiredType(sh, expr.id)
           resolved ==
             IF expr.type # "Invalid" THEN expr
             ELSE [expr EXCEPT
                     !.type = schema[FindIndex(SchemaColumnNames(schema), expr.name)].type]
           final == IF desired_type = "Invalid" THEN resolved.type ELSE desired_type
       IN Only({IF ~CheckDesiredType(sh2, resolved)
                  THEN Bound(DatatypeMismatch, resolved, sh2)
                  ELSE Bound("", resolved, sh2) :
                sh2 \in {SetDesiredType(sh, expr.id, final)}})

\* Visit(ConstantValueExpression), lines 750-757.
VisitConstantValueExpression(sh, expr) ==
  LET promoted == CheckAndTryPromoteType(expr.type, GetDesiredType(sh, expr.id))
  IN IF promoted = "Fail" THEN Bound(DatatypeMismatch, expr, sh)
     ELSE Bound("", [expr EXCEPT !.type = promoted], sh)

\* Visit(ParameterValueExpression), lines 797-808: the parameter vector is
\* indexed without a test; an index outside it crashes or reads whatever type
\* is there.
VisitParameterValueExpression(sh, expr) ==
  LET inRange == expr.idx < Len(sh.parameters)
      param == IF inRange THEN sh.parameters[expr.idx + 1] ELSE sh.garbage
      promoted == CheckAndTryPromoteType(param, GetDesiredType(sh, expr.id))
      sh2 == IF inRange
               THEN [sh EXCEPT !.desired_parameter_types[expr.idx + 1] = promoted]
               ELSE [sh EXCEPT !.faults = @ \cup {OutOfRangeAccess}]
  IN IF ~inRange /\ sh.garbage = "crash"
       THEN Bound(OutOfRangeAccess, expr, sh2)
     ELSE IF promoted = "Fail" THEN Bound(DatatypeMismatch, expr, sh)
     ELSE Bound("", [expr EXCEPT !.type = promoted], sh2)

RECURSIVE VisitExpression(_, _, _)

\* SqlNodeVisitor::Visit(expr): AcceptChildren, the children from position k on.
RECURSIVE AcceptChildren(_, _, _, _)
AcceptChildren(schema, sh, expr, k) ==
  IF k > Len(expr.children) THEN Bound("", expr, sh)
  ELSE Only({IF r.code # "" THEN Bound(r.code, [expr EXCEPT !.children[k] = r.node], r.sh)
             ELSE Only({AcceptChildren(schema, r.sh, visited, k + 1) :
                        visited \in {[expr EXCEPT !.children[k] = r.node]}}) :
             r \in {VisitExpression(schema, sh, expr.children[k])}})

\* Visit(TypeCastExpression) without the visit of the child after
\* SetDesiredType.
VisitTypeCastExpression_NoVisit(schema, sh, expr) ==
  Only({Bound("", expr, sh2) :
        sh2 \in {SetDesiredType(sh, expr.children[1].id, expr.type)}})

\* Visit(TypeCastExpression), lines 832-837.
VisitTypeCastExpression(schema, sh, expr) ==
  Only({AcceptChildren(schema, sh2, expr, 1) :
        sh2 \in {SetDesiredType(sh, expr.children[1].id, expr.type)}})

\* BinderSherpa::SetDesiredTypePair: "" or the code of the failure.
SetDesiredTypePair(sh, left, right) ==
  LET common == CommonType(left.type, right.type)
  IN IF common = "Fail" THEN [code |-> DatatypeMismatch, sh |-> sh]
     ELSE [code |-> "",
           sh |-> SetDesiredType(SetDesiredType(sh, left.id, common), right.id, common)]

\* The loop of lines 728-736: a CAST child is replaced by its own child.  The
\* assertion is compiled into debug builds only.
PullUpCasts(sh, expr) ==
  LET bad == \E i \in 1..Len(expr.children) :
               /\ expr.children[i].kind = "OPERATOR_CAST"
               /\ expr.children[i].children[1].kind # "VALUE_CONSTANT"
      pulled == [expr EXCEPT !.children =
                   [i \in 1..Len(expr.children) |->
                      IF expr.children[i].kind = "OPERATOR_CAST"
                        THEN expr.children[i].children[1]
                        ELSE expr.children[i]]]
  IN IF bad /\ sh.build = "debug"
       THEN Bound(AssertionFailure, expr, [sh EXCEPT !.faults = @ \cup {AssertionFailure}])
     ELSE IF bad
       THEN Bound("", pulled, [sh EXCEPT !.faults = @ \cup {AssertionFailure}])
     ELSE Bound("", pulled, sh)

\* Visit(ComparisonExpression), lines 721-737.
VisitComparisonExpression_Sherpa(schema, sh, expr) ==
  Only({IF first.code # "" THEN first
        ELSE IF ~CheckDesiredType(first.sh, first.node)
          THEN Bound(DatatypeMismatch, first.node, first.sh)
        ELSE Only({IF pair.code # "" THEN Bound(pair.code, first.node, first.sh)
                   ELSE Only({IF second.code # "" THEN second
                              ELSE PullUpCasts(second.sh, second.node) :
                              second \in {AcceptChildren(schema, pair.sh, first.node, 1)}}) :
                   pair \in {SetDesiredTypePair(first.sh, first.node.children[1],
                                                first.node.children[2])}}) :
        first \in {AcceptChildren(schema, sh, expr, 1)}})

\* Boolean as the desired type of the children from position k on.
RECURSIVE SetChildrenBoolean(_, _, _)
SetChildrenBoolean(sh, expr, k) ==
  IF k > Len(expr.children) THEN sh
  ELSE Only({SetChildrenBoolean(sh2, expr, k + 1) :
             sh2 \in {SetDesiredType(sh, expr.children[k].id, "Boolean")}})

\* Visit(ConjunctionExpression), lines 739-748.
VisitConjunctionExpression(schema, sh, expr) ==
  Only({IF first.code # "" THEN first
        ELSE IF ~CheckDesiredType(first.sh, first.node)
          THEN Bound(DatatypeMismatch, first.node, first.sh)
        ELSE Only({AcceptChildren(schema, sh2, first.node, 1) :
                   sh2 \in {SetChildrenBoolean(first.sh, first.node, 1)}}) :
        first \in {AcceptChildren(schema, sh, expr, 1)}})

\* expr->Accept(this): the visit method of the node's class, between the
\* events of its beginning and of its return.
VisitExpression(schema, sh, expr) ==
  Only({Only({Bound(r.code, r.node, Log(r.sh, "return", expr.id)) :
              r \in {IF expr.kind = "COLUMN_VALUE"
                       THEN VisitColumnValueExpression(schema, begun, expr)
                     ELSE IF expr.kind = "VALUE_CONSTANT"
                       THEN VisitConstantValueExpression(begun, expr)
                     ELSE IF expr.kind = "VALUE_PARAMETER"
                       THEN VisitParameterValueExpression(begun, expr)
                     ELSE IF expr.kind = "OPERATOR_CAST"
                       THEN VisitTypeCastExpression(schema, begun, expr)
                     ELSE IF expr.kind = "COMPARE"
                       THEN VisitComparisonExpression_Sherpa(schema, begun, expr)
                     ELSE VisitConjunctionExpression(schema, begun, expr)}}) :
        begun \in {Log(sh, "visit", expr.id)}})

(* Statements *)

\* The catalog the DML and DROP statements are bound against: the tables of
\* SelectCatalog, one index, the connection's database and one other database.
Indexes == {"i"}

CurrentDatabase == "db"

Databases == {"db", "other"}

\* ValidateDatabaseName, lines 967-977: "" or the code of the exception.
ValidateDatabaseName(db_name) ==
  IF db_name = "" THEN ""
  ELSE IF db_name \notin Databases THEN UndefinedDatabase
  ELSE IF db_name # CurrentDatabase THEN FeatureNotSupported
  ELSE ""

\* AbstractExpression::Copy of a node: the same node at another address.
CopyOffset == 100

Copy(expr) == [expr EXCEPT !.id = @ + CopyOffset]

\* catalog::Schema::GetColumn(name) has no column to return for a name that
\* is not in the schema and throws an exception that is not a BinderException.
SchemaGetColumnFails(schema, name) == ~ColumnInSchema(schema, name)

\* One assignment of the loop of Visit(UpdateStatement), lines 624-642.
VisitUpdateClause(schema, sh, update) ==
  LET expr == update.value
      expected_ret_type == schema[FindIndex(SchemaColumnNames(schema), update.column)].type
      is_cast_expression == expr.kind = "OPERATOR_CAST"
      child == Copy(expr.children[1])
      value == IF is_cast_expression THEN child ELSE expr
  IN IF SchemaGetColumnFails(schema, update.column)
       THEN Bound(UntypedException, update, sh)
     ELSE IF is_cast_expression /\ expr.type # expected_ret_type
       THEN Bound(NumericValueOutOfRange, update, sh)
     ELSE Only({Only({Bound(r.code, [update EXCEPT !.value = r.node], r.sh) :
                      r \in {VisitExpression(schema, sh2, value)}}) :
                sh2 \in {SetDesiredType(IF is_cast_expression
                                          THEN SetDesiredType(sh, child.id, expr.type)
                                          ELSE sh,
                                        value.id, expected_ret_type)}})

RECURSIVE VisitUpdateClauses(_, _, _, _)
VisitUpdateClauses(schema, sh, updates, k) ==
  IF k > Len(updates) THEN Bound("", updates, sh)
  ELSE Only({IF r.code # "" THEN Bound(r.code, [updates EXCEPT ![k] = r.node], r.sh)
             ELSE Only({VisitUpdateClauses(schema, r.sh, bound, k + 1) :
                        bound \in {[updates EXCEPT ![k] = r.node]}}) :
             r \in {VisitUpdateClause(schema, sh, updates[k])}})

\* The WHERE clause of an UPDATE or a DELETE (<<>> when there is none); the
\* conditions bound here are comparisons and conjunctions, which
\* BinderUtil::ValidateWhereClause accepts.
VisitCondition(schema, sh, where) ==
  IF where = <<>> THEN Bound("", where, sh)
  ELSE Only({Bound(r.code, <<r.node>>, r.sh) : r \in {VisitExpression(schema, sh, where[1])}})

\* Visit(UpdateStatement), lines 603-645, with Visit(TableRef) of a single
\* table, lines 864-865 and 899-912.
VisitUpdateStatement(cat, sh, node) ==
  IF ValidateDatabaseName(node.db) # "" THEN Bound(ValidateDatabaseName(node.db), node, sh)
  ELSE IF node.table \notin DOMAIN cat THEN Bound(UndefinedTable, node, sh)
  ELSE Only({IF cond.code # "" THEN Bound(cond.code, [node EXCEPT !.where = cond.node], cond.sh)
             ELSE Only({Bound(sets.code,
                              [node EXCEPT !.where = cond.node, !.updates = sets.node],
                              sets.sh) :
                        sets \in {VisitUpdateClauses(cat[node.table], cond.sh, node.updates, 1)}}) :
             cond \in {VisitCondition(cat[node.table], sh, node.where)}})

\* Visit(DeleteStatement), lines 263-284: the deletion table is one of the catalog.
VisitDeleteStatement(cat, sh, node) ==
  IF ValidateDatabaseName(node.db) # "" THEN Bound(ValidateDatabaseName(node.db), node, sh)
  ELSE Only({Bound(cond.code, [node EXCEPT !.where = cond.node], cond.sh) :
             cond \in {VisitCondition(cat[node.table], sh, node.where)}})

\* Visit(DropStatement), lines 286-323.
VisitDropStatement(cat, sh, node) ==
  LET db == ValidateDatabaseName(node.db)
  IN IF node.dropType \in {"kDatabase", "kTable", "kIndex"} /\ db # "" THEN Bound(db, node, sh)
     ELSE IF node.dropType = "kTable" /\ node.name \notin DOMAIN cat THEN Bound(UndefinedTable, node, sh)
     ELSE IF node.dropType = "kIndex" /\ node.name \notin Indexes THEN Bound(UndefinedObject, node, sh)
     ELSE Bound("", node, sh)

\* BindNameToNode, lines 54-63: the statement is visited with a new sherpa.
BindNameToNode(cat, node, parameters, build, garbage) ==
  LET sh == BinderSherpa(parameters, build, garbage)
  IN IF node.kind = "UPDATE" THEN VisitUpdateStatement(cat, sh, node)
     ELSE IF node.kind = "DELETE" THEN VisitDeleteStatement(cat, sh, node)
     ELSE VisitDropStatement(cat, sh, node)

\* TrafficCopResult
TrafficCopResult(type, code) == [type |-> type, code |-> code]

\* The catch clause of BindQuery, lines 443-457.
BindFailureResult(node, code) ==
  IF node.kind = "DROP" /\ node.ifExists
    THEN TrafficCopResult("NOTICE", "SuccessfulCompletion")
    ELSE TrafficCopResult("ERROR", code)

\* TrafficCop::BindQuery on a statement without a cached plan.  parameters is
\* the vector the caller passes; an empty one reaches the binder as nullptr.
\* An exception that is no BinderException, a failed assertion and a crash
\* leave BindQuery without a result.
BindQuery ==
  /\ pc = "start"
  /\ stmt.kind \in {"UPDATE", "DELETE", "DROP"}
  /\ \E r \in {BindNameToNode(catalog, stmt, sherpa.parameters, sherpa.build, sherpa.garbage)} :
        /\ stmt' = r.node
        /\ sherpa' = r.sh
        /\ IF r.code = ""
             THEN /\ pc' = "done"
                  /\ error' = NoError
                  /\ result' = TrafficCopResult("COMPLETE", "")
           ELSE IF r.code \in BinderErrorCodes
             THEN /\ pc' = "error"
                  /\ error' = BinderException(r.code, 0, 0)
                  /\ result' = BindFailureResult(stmt, r.code)
           ELSE /\ pc' = "fault"
                /\ error' = [code |-> r.code, a |-> 0, b |-> 0]
                /\ UNCHANGED result
  /\ UNCHANGED <<catalog, input, firstBound, frames, nextTempOid, oob, optimizer, txn>>

LogicalDelete(table) == [op |-> "LogicalDelete", table |-> table, predicates |-> <<>>]
LogicalUpdate(table) == [op |-> "LogicalUpdate", table |-> table, predicates |-> <<>>]
LogicalDrop(dropType, name) == [op |-> "LogicalDrop", table |-> name, predicates |-> <<>>]

\* LogicalGet::Make(db, table, predicates, alias, true)
LogicalGetForUpdate(table, predicates) ==
  [op |-> "LogicalGet", table |-> table, predicates |-> predicates]

\* QueryToOperatorTransformer::Visit of a DELETE (584-615), DROP (617-649) or
\* UPDATE (664-696) statement.
TransformStatement(node) ==
  IF node.kind = "DELETE"
    THEN OperatorNode(LogicalDelete(node.table),
                      <<OperatorNode(LogicalGetForUpdate(node.table, node.where), <<>>)>>)
  ELSE IF node.kind = "UPDATE"
    THEN OperatorNode(LogicalUpdate(node.table),
                      <<OperatorNode(LogicalGetForUpdate(node.table, node.where), <<>>)>>)
  ELSE OperatorNode(LogicalDrop(node.dropType, node.name), <<>>)

\* The connection goes on to the optimizer only with a statement BindQuery
\* completed.
BindCompleted == result # NoResult /\ result.type = "COMPLETE"

\* TrafficCop::OptimizeBoundQuery
OptimizeBoundQuery ==
  /\ pc = "done"
  /\ stmt.kind \in {"UPDATE", "DELETE", "DROP"}
  /\ BindCompleted
  /\ optimizer = NoOptimizer
  /\ optimizer' = Optimizer(<<TransformStatement(stmt)>>, <<>>, 0, <<>>, "")
  /\ UNCHANGED <<catalog, stmt, pc, error, input, firstBound, frames, sherpa, nextTempOid, oob,
                 txn, result>>

(* Inputs of BindQuery *)

ColumnRefNode(id, name) == Node(id, "COLUMN_VALUE", "Invalid", name, 0, <<>>)
ConstantNode(id, type) == Node(id, "VALUE_CONSTANT", type, "", 0, <<>>)
ParameterNode(id, idx) == Node(id, "VALUE_PARAMETER", "Invalid", "", idx, <<>>)
TypeCastNode(id, type, child) == Node(id, "OPERATOR_CAST", type, "", 0, <<child>>)
ComparisonNode(id, left, right) == Node(id, "COMPARE", "Boolean", "", 0, <<left, right>>)
ConjunctionNode(id, left, right) == Node(id, "CONJUNCTION", "Boolean", "", 0, <<left, right>>)

\* The operands of a comparison whose nodes take the ids from id on.
OperandNodes(id) ==
  {ColumnRefNode(id, "a"), ColumnRefNode(id, "b"), ColumnRefNode(id, "zz"),
   ConstantNode(id, "Integer"), ConstantNode(id, "Varchar"),
   ParameterNode(id, 0), ParameterNode(id, 1),
   TypeCastNode(id, "Integer", ConstantNode(id + 1, "Integer")),
   TypeCastNode(id, "Double", ConstantNode(id + 1, "Integer")),
   TypeCastNode(id, "Integer", ColumnRefNode(id + 1, "a"))}

ComparisonNodes(id) ==
  {ComparisonNode(id, l, r) : l \in OperandNodes(id + 1), r \in OperandNodes(id + 3)}

\* a = 1, the second conjunct of the conjunctions.
PlainComparison(id) ==
  ComparisonNode(id, ColumnRefNode(id + 1, "a"), ConstantNode(id + 3, "Integer"))

Conditions ==
  {<<>>} \cup {<<c>> : c \in ComparisonNodes(1)}
         \cup {<<ConjunctionNode(11, c, PlainComparison(6))>> : c \in ComparisonNodes(1)}

\* The values assigned by SET.
UpdateValues ==
  {ConstantNode(21, "Integer"), ConstantNode(21, "Varchar"), ParameterNode(21, 0),
   ParameterNode(21, 1),
   TypeCastNode(21, "Integer", ConstantNode(22, "Integer")),
   TypeCastNode(21, "Varchar", ConstantNode(22, "Integer"))}

UpdateClauses ==
  {[column |-> c, value |-> v] : c \in {"a", "b", "zz"}, v \in UpdateValues}

\* UPDATE [db.]table SET ... [WHERE a = 1]
UpdateStatements ==
  {[kind |-> "UPDATE", db |-> db, table |-> table, where |-> where, updates |-> updates,
    dropType |-> "", name |-> "", ifExists |-> FALSE] :
     db \in {"", "other"}, table \in {"t", "nt"}, where \in {<<>>, <<PlainComparison(6)>>},
     updates \in UNION {SeqsOfLen(UpdateClauses, n) : n \in 1..MaxSet}}

\* DELETE FROM [db.]t [WHERE ...]
DeleteStatements ==
  {[kind |-> "DELETE", db |-> db, table |-> "t", where |-> where, updates |-> <<>>,
    dropType |-> "", name |-> "", ifExists |-> FALSE] :
     db \in {"", "db", "other", "nodb"}, where \in Conditions}

\* DROP TABLE | INDEX | DATABASE | VIEW [IF EXISTS] [db.]name
DropStatements ==
  {[kind |-> "DROP", db |-> db, table |-> "", where |-> <<>>, updates |-> <<>>,
    dropType |-> dropType, name |-> name, ifExists |-> ifExists] :
     db \in {"", "db", "other", "nodb"}, dropType \in {"kTable", "kIndex", "kDatabase", "kView"},
     name \in {"t", "i", "nx"}, ifExists \in BOOLEAN}

\* The parameter vectors of the caller: none, or one integer or string.
ParameterVectors == {<<>>, <<"Integer">>, <<"Varchar">>}

BindQueryInit ==
  /\ catalog = SelectCatalog
  /\ stmt \in UpdateStatements \cup DeleteStatements \cup DropStatements
  /\ input = stmt
  /\ pc = "start"
  /\ error = NoError
  /\ firstBound = <<>>
  /\ frames = <<>>
  /\ \E parameters \in ParameterVectors, build \in {"debug", "release"},
        garbage \in {"crash", "Integer"} :
       sherpa = BinderSherpa(parameters, build, garbage)
  /\ nextTempOid = 1
  /\ oob = {}
  /\ optimizer = NoOptimizer
  /\ txn = NoTxn
  /\ result = NoResult

BindQueryNext == BindQuery \/ OptimizeBoundQuery

SpecBindQuery == BindQueryInit /\ [][BindQueryNext]_vars

----------------------------------------------------------------------------
(* Properties of BindQuery *)

BindingDml == stmt.kind \in {"UPDATE", "DELETE", "DROP"}

\* C13: a bind call that does not succeed ends with a BinderException that
\* carries an error code, and never with an exception of another class, a
\* failed assertion or an access outside a vector.
C13_TypedBinderError ==
  (BindingDml /\ pc \in {"error", "fault"}) =>
    /\ pc = "error"
    /\ error.code \in BinderErrorCodes
    /\ sherpa.faults = {}

\* The nodes of an expression tree.
RECURSIVE NodesOf(_)
NodesOf(expr) ==
  {expr} \cup UNION {NodesOf(expr.children[k]) : k \in 1..Len(expr.children)}

\* The nodes of a WHERE clause.
ConditionNodes(where) == UNION {NodesOf(where[k]) : k \in 1..Len(where)}

\* The WHERE clause names a column the deletion table does not have.
ReferencesUnknownColumn(node) ==
  \E n \in ConditionNodes(node.where) :
    n.kind = "COLUMN_VALUE" /\ \A i \in 1..Len(catalog[node.table]) : catalog[node.table][i].name # n.name

\* Every parameter placeholder of the WHERE clause has a parameter.
ParametersSupplied(node) ==
  \A n \in ConditionNodes(node.where) :
    n.kind = "VALUE_PARAMETER" => n.idx < Len(sherpa.parameters)

TargetMissing(node) ==
  \/ node.dropType = "kTable" /\ node.name \notin DOMAIN catalog
  \/ node.dropType = "kIndex" /\ node.name \notin Indexes

\* C15: BindQuery answers a bind failure with a NOTICE only for a DROP with
\* IF EXISTS that failed because its target does not exist; every other bind
\* failure, a DROP IF EXISTS with a cross-database reference included, is
\* answered with an ERROR that carries the binder's error code.
C15_NoticeOnlyForMissingTarget ==
  (BindingDml /\ pc = "error") =>
    IF /\ input.kind = "DROP"
       /\ input.ifExists
       /\ error.code \in {UndefinedTable, UndefinedObject}
       /\ TargetMissing(input)
      THEN result.type = "NOTICE"
      ELSE result = TrafficCopResult("ERROR", error.code)

----------------------------------------------------------------------------
(* QueryToOperatorTransformer on a SELECT with a WITH clause, and the end of *)
(* the transaction whose hooks own the nodes the transformer allocates      *)

\* Largest number of entries of a WITH clause.
MaxWith == 2

\* Largest number of times a statement is transformed in one transaction.
MaxTransforms == 2

\* Largest number of column aliases of a CTE.
MaxCteCols == 2

LogicalCteScan(name) == [op |-> "LogicalCteScan", table |-> name, predicates |-> <<>>]
LogicalQueryDerivedGet(alias) ==
  [op |-> "LogicalQueryDerivedGet", table |-> alias, predicates |-> <<>>]

\* TransactionContext: the delete actions registered for commit and for abort
\* (each names the node it deletes), the nodes allocated so far (1..next-1),
\* those not freed yet and the nodes freed, in order.
TransactionContext ==
  [state |-> "active", commit_actions |-> <<>>, abort_actions |-> <<>>, next |-> 1,
   live |-> {}, freed |-> <<>>]

\* Lines 101-106: new ColumnValueExpression, RegisterAbortAction,
\* RegisterCommitAction.
NewColumnValueExpression_CommitOnly(t) ==
  [t EXCEPT !.next = @ + 1,
            !.live = @ \cup {t.next},
            !.commit_actions = Append(@, t.next)]

NewColumnValueExpression(t) ==
  [t EXCEPT !.next = @ + 1,
            !.live = @ \cup {t.next},
            !.abort_actions = Append(@, t.next),
            !.commit_actions = Append(@, t.next)]

\* The loop of lines 99-112 over n column aliases.
RECURSIVE NewColumnValueExpressions(_, _)
NewColumnValueExpressions(t, n) ==
  IF n = 0 THEN t
  ELSE Only({NewColumnValueExpressions(t2, n - 1) : t2 \in {NewColumnValueExpression(t)}})

\* The transformer and the transaction, as one visit hands them to the next.
Transformer(output_expr, cte_table_name, t) ==
  [output_expr_ |-> output_expr, cte_table_name_ |-> cte_table_name, txn |-> t]

\* FindFirstCTEScanNode(child_expr, cte_table_name), lines 44-63, with
\* output_expr_ = output_expr: the tree after the call and is_added.  In a
\* list of children the search stops at the first child that took the node.
RECURSIVE FindFirstCTEScanNode(_, _, _)
RECURSIVE FindInChildren(_, _, _, _)
FindInChildren(children, cte_table_name, output_expr, k) ==
  IF k > Len(children) THEN [is_added |-> FALSE, children |-> children]
  ELSE Only({IF r.is_added
               THEN [is_added |-> TRUE, children |-> [children EXCEPT ![k] = r.node]]
               ELSE FindInChildren(children, cte_table_name, output_expr, k + 1) :
             r \in {FindFirstCTEScanNode(children[k], cte_table_name, output_expr)}})

FindFirstCTEScanNode(child_expr, cte_table_name, output_expr) ==
  IF child_expr.contents.op = "LogicalCteScan" /\ child_expr.contents.table = cte_table_name
    THEN [is_added |-> TRUE,
          node |-> [child_expr EXCEPT !.children = Append(@, output_expr)]]
  ELSE Only({[is_added |-> r.is_added, node |-> [child_expr EXCEPT !.children = r.children]] :
             r \in {FindInChildren(child_expr.children, cte_table_name, output_expr, 1)}})

RECURSIVE VisitCteSelect(_, _)

\* Visit(TableRef) of a WITH entry, lines 346-364: the body is transformed and
\* put under a LogicalQueryDerivedGet.
VisitDerivedTable(x, with) ==
  Only({[body EXCEPT !.output_expr_ =
           OperatorNode(LogicalQueryDerivedGet(with.alias), <<body.output_expr_>>)] :
        body \in {VisitCteSelect(x, with.select)}})

\* One round of the loop of lines 75-142.
TransformWith(x, with) ==
  Only({Transformer(OperatorNode(LogicalCteScan(with.alias), <<derived.output_expr_>>),
                    Append(derived.cte_table_name_, with.alias),
                    NewColumnValueExpressions(derived.txn, with.cte_col_aliases)) :
        derived \in {VisitDerivedTable(x, with)}})

RECURSIVE TransformWiths(_, _, _)
TransformWiths(x, withs, k) ==
  IF k > Len(withs) THEN x
  ELSE Only({TransformWiths(x2, withs, k + 1) : x2 \in {TransformWith(x, withs[k])}})

\* Visit(TableRef) of a single table, lines 388-410: a scan of the CTE when
\* the name is one of cte_table_name_.
VisitSingleTable(x, from) ==
  [x EXCEPT !.output_expr_ =
     IF \E k \in 1..Len(x.cte_table_name_) : x.cte_table_name_[k] = from
       THEN OperatorNode(LogicalCteScan(from), <<>>)
       ELSE OperatorNode(LogicalGet(from), <<>>)]

\* One round of the loop of lines 247-256: the body is transformed again and
\* hung under the first scan of the CTE in child_expr.
ReattachWith(x, child_expr, with) ==
  Only({[x |-> derived,
         child_expr |-> FindFirstCTEScanNode(child_expr, with.alias, derived.output_expr_).node] :
        derived \in {VisitDerivedTable(x, with)}})

RECURSIVE ReattachWiths(_, _, _, _)
ReattachWiths(x, child_expr, withs, k) ==
  IF k > Len(withs) THEN [x EXCEPT !.output_expr_ = child_expr]
  ELSE Only({ReattachWiths(r.x, r.child_expr, withs, k + 1) :
             r \in {ReattachWith(x, child_expr, withs[k])}})

\* Visit(SelectStatement) of the body of a CTE: WITH, FROM, WITH again.
VisitCteSelect(x, op) ==
  Only({IF op.with = <<>> THEN from
        ELSE ReattachWiths(from, from.output_expr_, op.with, 1) :
        from \in {VisitSingleTable(TransformWiths(x, op.with, 1), op.from)}})

\* The position of the transformer in the WITH clause of the statement: the
\* loop it is in, the entry it is at, and the number of the transformation.
CteOptimizer(x, phase, w, child_expr, runs) ==
  [output_expr_ |-> <<x.output_expr_>>, cte_table_name_ |-> x.cte_table_name_, phase |-> phase,
   w |-> w, child_expr |-> child_expr, runs |-> runs, j |-> 0, prev |-> <<>>,
   predicates_ |-> <<>>, code |-> ""]

CurrentTransformer == Transformer(optimizer.output_expr_[1], optimizer.cte_table_name_, txn)

NoTree == OperatorNode(LogicalGet(""), <<>>)

TransformingCte == stmt.kind = "WITH_SELECT"

\* The first loop reaches the next WITH entry of the statement.
TransformWithEntry ==
  /\ TransformingCte /\ pc = "with"
  /\ optimizer.w <= Len(stmt.with)
  /\ \E x \in {TransformWith(CurrentTransformer, stmt.with[optimizer.w])} :
       /\ optimizer' = CteOptimizer(x, "with", optimizer.w + 1, <<>>, optimizer.runs)
       /\ txn' = x.txn
  /\ UNCHANGED <<catalog, stmt, pc, error, input, firstBound, frames, sherpa, nextTempOid, oob,
                 result>>

\* Lines 146-159: FROM, and a WHERE clause that the transformer rejects with
\* NOT_IMPLEMENTED when it holds an unsupported predicate.
TransformFromClause ==
  /\ TransformingCte /\ pc = "with"
  /\ optimizer.w > Len(stmt.with)
  /\ \E x \in {VisitSingleTable(CurrentTransformer, stmt.from)} :
       IF stmt.unsupported
         THEN /\ pc' = "error"
              /\ optimizer' = [CteOptimizer(x, "with", optimizer.w, <<>>, optimizer.runs)
                                 EXCEPT !.code = NotImplemented]
         ELSE /\ pc' = "reattach"
              /\ optimizer' = CteOptimizer(x, "reattach", 1, <<x.output_expr_>>, optimizer.runs)
  /\ UNCHANGED <<catalog, stmt, error, input, firstBound, frames, sherpa, nextTempOid, oob,
                 txn, result>>

\* The second loop reaches the next WITH entry of the statement.
ReattachWithEntry ==
  /\ TransformingCte /\ pc = "reattach"
  /\ optimizer.w <= Len(stmt.with)
  /\ \E r \in {ReattachWith(CurrentTransformer, optimizer.child_expr[1], stmt.with[optimizer.w])} :
       /\ optimizer' = CteOptimizer(r.x, "reattach", optimizer.w + 1, <<r.child_expr>>,
                                    optimizer.runs)
       /\ txn' = r.x.txn
  /\ UNCHANGED <<catalog, stmt, pc, error, input, firstBound, frames, sherpa, nextTempOid, oob,
                 result>>

\* Line 259: the complete tree is put back and the transformation ends.
FinishTransform ==
  /\ TransformingCte /\ pc = "reattach"
  /\ optimizer.w > Len(stmt.with)
  /\ optimizer' = [optimizer EXCEPT !.output_expr_ = optimizer.child_expr, !.phase = "done"]
  /\ pc' = "done"
  /\ UNCHANGED <<catalog, stmt, error, input, firstBound, frames, sherpa, nextTempOid, oob,
                 txn, result>>

\* The statement is optimized again in the same transaction (RunExecutableQuery,
\* traffic_cop.cpp 540-548) by a new transformer.
TransformAgain ==
  /\ TransformingCte /\ pc = "done"
  /\ txn.state = "active"
  /\ optimizer.runs < MaxTransforms
  /\ optimizer' = CteOptimizer(Transformer(NoTree, <<>>, txn), "with", 1, <<>>,
                               optimizer.runs + 1)
  /\ pc' = "with"
  /\ UNCHANGED <<catalog, stmt, error, input, firstBound, frames, sherpa, nextTempOid, oob,
                 txn, result>>

\* The nodes a list of delete actions frees, in the order the actions run.
RunActions(t, actions, state) ==
  [t EXCEPT !.state = state,
            !.freed = @ \o actions,
            !.live = @ \ {actions[k] : k \in 1..Len(actions)}]

\* The transaction commits: its commit actions run.
Commit ==
  /\ TransformingCte /\ pc = "done"
  /\ txn.state = "active"
  /\ txn' = RunActions(txn, txn.commit_actions, "committed")
  /\ UNCHANGED <<catalog, stmt, pc, error, input, firstBound, frames, sherpa, nextTempOid, oob,
                 optimizer, result>>

\* The transaction aborts, after a transformation or after its failure: its
\* abort actions run.
Abort ==
  /\ TransformingCte /\ pc \in {"done", "error"}
  /\ txn.state = "active"
  /\ txn' = RunActions(txn, txn.abort_actions, "aborted")
  /\ UNCHANGED <<catalog, stmt, pc, error, input, firstBound, frames, sherpa, nextTempOid, oob,
                 optimizer, result>>

(* Inputs: bound SELECT statements with WITH clauses *)

WithEntry(alias, cte_col_aliases, select) ==
  [alias |-> alias, cte_col_aliases |-> cte_col_aliases, select |-> select]

WithSelect(with, from, unsupported) ==
  [kind |-> "WITH_SELECT", with |-> with, from |-> from, unsupported |-> unsupported]

\* Bodies without a WITH clause of their own.
PlainBodies == {WithSelect(<<>>, "t", FALSE)}

\* Bodies with a WITH clause of one entry.
NestedBodies ==
  {WithSelect(<<WithEntry("y", n, body)>>, from, FALSE) :
     n \in 1..MaxCteCols, body \in PlainBodies, from \in {"t", "y"}}

WithEntries(alias) ==
  {WithEntry(alias, n, body) : n \in 0..MaxCteCols, body \in PlainBodies \cup NestedBodies}

WithClauses ==
  UNION {{[k \in 1..n |-> f[k]] : f \in [1..n -> WithEntries("x")]} : n \in 0..MaxWith}

CteStatements ==
  {WithSelect(with, from, unsupported) :
     with \in WithClauses, from \in {"t", "x"}, unsupported \in BOOLEAN}

CteInit ==
  /\ catalog = SelectCatalog
  /\ stmt \in CteStatements
  /\ input = stmt
  /\ pc = "with"
  /\ error = NoError
  /\ firstBound = <<>>
  /\ frames = <<>>
  /\ sherpa = [cte_table_names |-> {}, serial |-> 1]
  /\ nextTempOid = 1
  /\ oob = {}
  /\ optimizer = CteOptimizer(Transformer(NoTree, <<>>, TransactionContext), "with", 1, <<>>, 1)
  /\ txn = TransactionContext
  /\ result = NoResult

CteNext ==
  \/ TransformWithEntry
  \/ TransformFromClause
  \/ ReattachWithEntry
  \/ FinishTransform
  \/ TransformAgain
  \/ Commit
  \/ Abort

SpecCte == CteInit /\ [][CteNext]_vars

----------------------------------------------------------------------------
(* Properties of the transaction hooks *)

\* How often x occurs in a sequence.
Occurrences(seq, x) == Cardinality({k \in 1..Len(seq) : seq[k] = x})

\* The nodes allocated so far.
Allocated == 1..(txn.next - 1)

\* C16: every column-reference node the transformer allocates for a CTE column
\* is registered once with the commit hook and once with the abort hook of the
\* transaction; while the transaction is active none is freed, and once it has
\* committed or aborted every node has been freed exactly once, however often
\* the WITH clause was transformed.
C16_CteNodesFreedOnce ==
  TransformingCte =>
    /\ \A n \in Allocated :
         /\ Occurrences(txn.commit_actions, n) = 1
         /\ Occurrences(txn.abort_actions, n) = 1
    /\ txn.state = "active" => (txn.freed = <<>> /\ txn.live = Allocated)
    /\ txn.state # "active" =>
         /\ txn.live = {}
         /\ \A n \in Allocated : Occurrences(txn.freed, n) = 1

\* A statement whose WITH entry has a WITH clause of its own was transformed
\* twice, so the inner clause four times, and the transaction then aborted.
C16_Witness ==
  /\ TransformingCte
  /\ txn.state = "aborted"
  /\ pc = "done"
  /\ optimizer.runs = 2
  /\ Len(stmt.with) = 1
  /\ stmt.with[1].cte_col_aliases = 1
  /\ stmt.with[1].select.with # <<>>
  /\ stmt.with[1].select.with[1].cte_col_aliases = 1
  /\ txn.next = 7
  /\ Len(txn.freed) = 6

----------------------------------------------------------------------------
(* The order of the clauses within one SELECT *)

\* The positions of one activation of Visit(SelectStatement) in the order
\* the code passes them, and what is bound at each: WITH entries ("with" and
\* "cteAliases" alternate, once per entry), FROM, WHERE, LIMIT, GROUP BY with
\* HAVING, the select list, the UNION side ("unionCheck" while it is bound),
\* ORDER BY, and "ret", where the scope is popped.
ClauseOrder ==
  {<<"with", "cteAliases">>, <<"cteAliases", "with">>, <<"with", "from">>, <<"from", "where">>,
   <<"where", "limit">>, <<"limit", "groupby">>, <<"groupby", "select">>, <<"select", "union">>,
   <<"union", "unionCheck">>, <<"unionCheck", "orderby">>, <<"union", "orderby">>,
   <<"orderby", "ret">>}

\* The clause of the node that an activation at position p may change.
ClauseBoundAt(p) ==
  CASE p \in {"with", "cteAliases"} -> {"with"}
    [] p = "from" -> {"from"}
    [] p = "where" -> {"where"}
    [] p = "limit" -> {"limit"}
    [] p = "groupby" -> {"groupBy"}
    [] p = "select" -> {"cols"}
    [] p \in {"union", "unionCheck"} -> {"union", "depth"}
    [] p = "orderby" -> {"orderBy"}
    [] OTHER -> {}

Clauses == {"with", "from", "where", "limit", "groupBy", "cols", "union", "orderBy", "depth"}

\* The activations that are on the stack before and after a step.
Persisting == 1..(IF Len(frames) < Len(frames') THEN Len(frames) ELSE Len(frames'))

\* One step of one bind keeps the clause order in every activation.
ClauseStep ==
  (pc = "binding" /\ pc' = "binding" /\ stmt.kind = "SELECT") =>
    /\ \A k \in Persisting :
         /\ frames'[k].pc # frames[k].pc => <<frames[k].pc, frames'[k].pc>> \in ClauseOrder
         /\ \A c \in Clauses :
              frames'[k].node[c] # frames[k].node[c] =>
                \/ c \in ClauseBoundAt(frames[k].pc)
                \/ c \in ClauseBoundAt(frames'[k].pc)
         /\ frames'[k].context.depth = frames[k].context.depth
    \* the scope is pushed with the activation, before any clause
    /\ Len(frames') > Len(frames) =>
         /\ Len(frames') = Len(frames) + 1
         /\ frames'[Len(frames')].pc = "with"
         /\ frames'[Len(frames')].node = frames'[Len(frames')].entry
         /\ frames'[Len(frames')].context.depth = Len(frames)
    \* the scope is popped after ORDER BY, and the node is then as it was left
    /\ Len(frames') < Len(frames) =>
         /\ Len(frames') = Len(frames) - 1
         /\ Top.pc = "ret"

\* C17: within one SELECT the binder binds WITH entries in textual order,
\* then FROM, WHERE, LIMIT, GROUP BY with HAVING, the select list, the UNION
\* side, ORDER BY, and then pops the scope; a clause changes only while the
\* activation is at that clause, between the push and the pop of its scope.
C17_ClauseOrder == [][ClauseStep]_vars

\* A SELECT with WHERE, LIMIT, GROUP BY, HAVING and ORDER BY is bound, all of
\* its clauses resolved.
C17_Witness ==
  /\ stmt.kind = "SELECT"
  /\ pc = "done"
  /\ stmt.where # <<>> /\ stmt.where[1].type = "Boolean"
  /\ stmt.limit # <<>>
  /\ stmt.groupBy # <<>> /\ stmt.groupBy[1].having # <<>>
  /\ stmt.groupBy[1].columns[1].type = "Integer"
  /\ stmt.orderBy # <<>> /\ stmt.orderBy # input.orderBy
  /\ stmt.cols # input.cols

----------------------------------------------------------------------------
(* The order of the steps of one WITH entry *)

\* The activations that bind (a part of) the body of a WITH entry.
CteRoles == {"cteFirst", "cteBase", "cteFull"}

\* The CTE is registered in the context with these columns under its aliases.
RegisteredWith(context, ref, sel_cols) ==
  \E k \in 1..Len(context.nested) :
    /\ context.nested[k].name = ref.alias.name
    /\ Len(context.nested[k].cols) = Len(sel_cols)
    /\ \A i \in 1..Len(sel_cols) :
         /\ context.nested[k].cols[i].type = sel_cols[i].type
         /\ context.nested[k].cols[i].alias = ref.cte_col_aliases[i]

Registered(context, name) ==
  \E k \in 1..Len(context.nested) : context.nested[k].name = name

\* A select whose bind has completed carries the depth of its scope.
IsBound(select) == select.depth >= 0

\* C18: while (a part of) the body of a WITH entry is bound, the name of the
\* CTE is in the sherpa.  For an inductive CTE the base case is bound first,
\* with the CTE not yet in the context and, in a first bind, the full body
\* still unbound; the full body is bound only with the base case bound and the
\* CTE registered in the enclosing context with the base case's columns.
C18_InductiveCteOrder ==
  stmt.kind = "SELECT" =>
    \A k \in 1..(Len(frames) - 1) :
      frames[k + 1].role \in CteRoles =>
        LET parent == frames[k]
            child == frames[k + 1]
            ref == parent.node.with[parent.w]
        IN /\ ref.alias.name \in sherpa.cte_table_names
           /\ child.role = "cteFirst" => ~ref.inductive
           /\ child.role = "cteBase" =>
                /\ ref.inductive
                /\ ~Registered(parent.context, ref.alias.name)
                /\ child.entry = ref.select.union[1]
                /\ firstBound = <<>> => ~IsBound(ref.select)
           /\ (child.role = "cteFull" /\ ref.inductive) =>
                /\ IsBound(ref.select.union[1])
                /\ RegisteredWith(parent.context, ref, ref.select.union[1].cols)
                /\ child.entry = ref.select

\* The full body of an inductive CTE is being bound, at its FROM clause, which
\* names the CTE itself.
C18_Witness ==
  /\ stmt.kind = "SELECT"
  /\ pc = "binding"
  /\ Len(frames) = 2
  /\ frames[2].role = "cteFull"
  /\ frames[1].node.with[1].inductive
  /\ frames[2].pc = "from"
  /\ frames[2].node.from[1].name = frames[1].node.with[1].alias.name
  /\ Len(frames[1].context.nested[1].cols) = 2

----------------------------------------------------------------------------
(* CAST operands of a comparison *)

\* The operands of the comparison that are CAST nodes.
CastOperands(comparison) ==
  {i \in 1..Len(comparison.children) : comparison.children[i].kind = "OPERATOR_CAST"}

\* The bind of a DELETE whose condition is a comparison with a CAST operand
\* has visited the comparison to its end or has stopped in it.
ComparisonWithCastVisited ==
  /\ input.kind = "DELETE"
  /\ pc \in {"done", "fault"}
  /\ input.where # <<>>
  /\ input.where[1].kind = "COMPARE"
  /\ CastOperands(input.where[1]) # {}

\* C19: when the binder has visited a comparison, every operand that was a
\* CAST node wrapped a constant (the assertion "We can only pull up
\* ConstantValueExpression" did not fail) and is now that constant, and no
\* operand of the bound comparison is a CAST node.
C19_CastOperandsPulledUp ==
  ComparisonWithCastVisited =>
    /\ error.code # AssertionFailure
    /\ AssertionFailure \notin sherpa.faults
    /\ \A i \in CastOperands(input.where[1]) :
         input.where[1].children[i].children[1].kind = "VALUE_CONSTANT"
    /\ pc = "done" =>
         /\ \A i \in CastOperands(input.where[1]) :
              stmt.where[1].children[i].kind = "VALUE_CONSTANT"
         /\ CastOperands(stmt.where[1]) = {}

----------------------------------------------------------------------------
(* Desired types and second visits *)

\* The events of the bind, in order.
Events == sherpa.events

\* One pass over the events from position k on.  stack holds the nodes whose
\* visit methods have begun and not returned, innermost last (empty in the
\* visit method of the statement); pending holds, for every desired type set
\* in a method that has not returned, the depth of that method and the node,
\* until the node is visited; missed collects the nodes whose method returned
\* (or, for the statement, whose bind ended) before they were visited, and
\* whether the method was the visit of the node itself.
RECURSIVE Unvisited(_, _, _, _)
Unvisited(k, stack, pending, missed) ==
  IF k > Len(Events)
    THEN missed \cup {[id |-> p[2], own |-> FALSE] : p \in pending}
  ELSE IF Events[k].what = "set"
    THEN Unvisited(k + 1, stack, pending \cup {<<Len(stack), Events[k].id>>}, missed)
  ELSE IF Events[k].what = "visit"
    THEN Unvisited(k + 1, Append(stack, Events[k].id),
                   {p \in pending : p[2] # Events[k].id}, missed)
  ELSE Unvisited(k + 1, SubSeq(stack, 1, Len(stack) - 1),
                 {p \in pending : p[1] < Len(stack)},
                 missed \cup {[id |-> p[2], own |-> p[2] = Events[k].id] :
                                p \in {q \in pending : q[1] = Len(stack)}})

\* The nodes that had a desired type set and were not visited again before
\* the method that set it returned.
NotVisitedAgain == Unvisited(1, <<>>, {}, {})

\* The expression nodes of the statement as parsed.
InputNodes ==
  ConditionNodes(input.where)
    \cup UNION {NodesOf(input.updates[k].value) : k \in 1..Len(input.updates)}

\* The node is a column reference of the statement, or a copy of one.
IsColumnReference(id) ==
  \E n \in InputNodes : n.kind = "COLUMN_VALUE" /\ n.id = id % CopyOffset

----------------------------------------------------------------------------
(* QueryToOperatorTransformer::Visit(TableRef) on a FROM list *)

\* Largest number of tables of a FROM list.
MaxTables == 4

LogicalInnerJoin == [op |-> "LogicalInnerJoin", table |-> "", predicates |-> <<>>]

\* An element of a FROM list: a table (or CTE) by name, or a derived table.
SingleTableRef(name) == [kind |-> "table", name |-> name, alias |-> name, select |-> <<>>]
DerivedTableRef(alias, select) ==
  [kind |-> "select", name |-> "", alias |-> alias, select |-> <<select>>]

\* Visit(TableRef) of one element of the list: lines 346-364 for a derived
\* table, lines 388-410 for a single table.
VisitListElement(x, node) ==
  IF node.kind = "select"
    THEN VisitDerivedTable(x, [alias |-> node.alias, select |-> node.select[1]])
    ELSE VisitSingleTable(x, node.name)

\* Lines 377-382 with the two PushChild calls exchanged.
InnerJoinOver_RightFirst(prev_expr, output_expr) ==
  OperatorNode(LogicalInnerJoin, <<output_expr, prev_expr>>)

\* Lines 377-382: the join of one round of the loop, prev_expr pushed first.
InnerJoinOver(prev_expr, output_expr) ==
  OperatorNode(LogicalInnerJoin, <<prev_expr, output_expr>>)

\* The transformer inside Visit(TableRef) of a list: output_expr_ and
\* prev_expr (<<>> when moved from), the loop index i (counted from 1) and
\* the names of the CTEs in scope.
ListOptimizer(output_expr, prev_expr, i, cte_table_name) ==
  [output_expr_ |-> output_expr, prev_expr |-> prev_expr, i |-> i,
   cte_table_name_ |-> cte_table_name]

TransformingList == stmt.kind = "FROM_LIST"

ListTransformer == Transformer(NoTree, optimizer.cte_table_name_, TransactionContext)

\* Line 372-373, or the single-table branch for a list of one element
\* (line 390).
VisitFirstTable ==
  /\ TransformingList /\ pc = "start"
  /\ \E x \in {VisitListElement(ListTransformer, stmt.list[1])} :
       IF Len(stmt.list) > 1
         THEN /\ optimizer' = ListOptimizer(<<>>, <<x.output_expr_>>, 2, optimizer.cte_table_name_)
              /\ pc' = "loop"
         ELSE /\ optimizer' = ListOptimizer(<<VisitSingleTable(ListTransformer,
                                                                stmt.list[1].name).output_expr_>>,
                                            <<>>, 1, optimizer.cte_table_name_)
              /\ pc' = "done"
  /\ UNCHANGED <<catalog, stmt, error, input, firstBound, frames, sherpa, nextTempOid, oob,
                 txn, result>>

\* One round of the loop of lines 375-385.
JoinNextTable ==
  /\ TransformingList /\ pc = "loop"
  /\ optimizer.i <= Len(stmt.list)
  /\ \E x \in {VisitListElement(ListTransformer, stmt.list[optimizer.i])} :
       optimizer' = ListOptimizer(<<>>, <<InnerJoinOver(optimizer.prev_expr[1], x.output_expr_)>>,
                                  optimizer.i + 1, optimizer.cte_table_name_)
  /\ UNCHANGED <<catalog, stmt, pc, error, input, firstBound, frames, sherpa, nextTempOid, oob,
                 txn, result>>

\* Line 386: output_expr_ = std::move(prev_expr).
FinishList ==
  /\ TransformingList /\ pc = "loop"
  /\ optimizer.i > Len(stmt.list)
  /\ optimizer' = ListOptimizer(optimizer.prev_expr, <<>>, optimizer.i, optimizer.cte_table_name_)
  /\ pc' = "done"
  /\ UNCHANGED <<catalog, stmt, error, input, firstBound, frames, sherpa, nextTempOid, oob,
                 txn, result>>

(* Inputs: FROM lists of tables, a CTE and a derived table *)

ListElements ==
  {SingleTableRef("t"), SingleTableRef("s"), SingleTableRef("c"),
   DerivedTableRef("d", WithSelect(<<>>, "t", FALSE))}

FromLists ==
  UNION {{[kind |-> "FROM_LIST", list |-> [k \in 1..n |-> f[k]]] : f \in [1..n -> ListElements]} :
           n \in 1..MaxTables}

FromListInit ==
  /\ catalog = SelectCatalog
  /\ stmt \in FromLists
  /\ input = stmt
  /\ pc = "start"
  /\ error = NoError
  /\ firstBound = <<>>
  /\ frames = <<>>
  /\ sherpa = [cte_table_names |-> {}, serial |-> 1]
  /\ nextTempOid = 1
  /\ oob = {}
  /\ optimizer = ListOptimizer(<<>>, <<>>, 1, <<"c">>)
  /\ txn = NoTxn
  /\ result = NoResult

FromListNext == VisitFirstTable \/ JoinNextTable \/ FinishList

SpecFromList == FromListInit /\ [][FromListNext]_vars

----------------------------------------------------------------------------
(* The join tree of a FROM list *)

\* The operator of the k-th table of the list, transformed by itself.
TableOperator(k) == VisitListElement(ListTransformer, input.list[k]).output_expr_

\* The number of Inner-join nodes of a tree.
RECURSIVE InnerJoins(_)
InnerJoins(tree) ==
  LET below == [k \in 1..Len(tree.children) |-> InnerJoins(tree.children[k])]
      sum[k \in 0..Len(below)] == IF k = 0 THEN 0 ELSE sum[k - 1] + below[k]
  IN sum[Len(below)] + (IF tree.contents.op = "LogicalInnerJoin" THEN 1 ELSE 0)

\* The tree is the left-deep chain over the first n tables of the list.
RECURSIVE LeftDeep(_, _)
LeftDeep(tree, n) ==
  IF n = 1 THEN tree = TableOperator(1)
  ELSE /\ tree.contents.op = "LogicalInnerJoin"
       /\ Len(tree.children) = 2
       /\ tree.children[2] = TableOperator(n)
       /\ LeftDeep(tree.children[1], n - 1)

\* C21: a FROM list of n > 1 tables is lowered to n-1 Inner-join nodes in a
\* left-deep chain: each join has two children, the right one the operator of
\* the next table, the left one the previous join (the first table's operator
\* for the first join); while the loop runs, the chain covers the tables
\* visited so far.
C21_LeftDeepInnerJoins ==
  (TransformingList /\ Len(input.list) > 1) =>
    /\ pc = "loop" =>
         /\ LeftDeep(optimizer.prev_expr[1], optimizer.i - 1)
         /\ InnerJoins(optimizer.prev_expr[1]) = optimizer.i - 2
    /\ pc = "done" =>
         /\ LeftDeep(optimizer.output_expr_[1], Len(input.list))
         /\ InnerJoins(optimizer.output_expr_[1]) = Len(input.list) - 1

\* FROM t, (SELECT ... FROM t) AS d, c, s is transformed.
C21_Witness ==
  /\ TransformingList
  /\ pc = "done"
  /\ Len(input.list) = 4
  /\ input.list[1] = SingleTableRef("t")
  /\ input.list[2].kind = "select"
  /\ input.list[3] = SingleTableRef("c")
  /\ input.list[4] = SingleTableRef("s")
  /\ optimizer.output_expr_[1].children[2].contents = LogicalGet("s")
  /\ optimizer.output_expr_[1].children[1].children[2].contents.op = "LogicalCteScan"

----------------------------------------------------------------------------
(* The aggregation of Visit(SelectStatement), on SELECTs with GROUP BY,       *)
(* HAVING and DISTINCT (query_to_operator_transformer.cpp, lines 170-216).     *)

\* The select lists: no aggregate, only aggregates, an aggregate inside an
\* operator expression, and mixtures of elements with and without one.
AggregateSelectLists ==
  {<<ColumnValueExpression("t", "a", 0)>>,
   <<ColumnValueExpression("t", "a", 0), ConstantValueExpression(1)>>,
   <<AggregateExpression("t", "a", 0)>>,
   <<AggregateExpression("t", "a", 0), AggregateExpression("t", "b", 0)>>,
   <<OperatorExpression("+", <<AggregateExpression("t", "a", 0), ConstantValueExpression(1)>>)>>,
   <<OperatorExpression("+", <<ColumnValueExpression("t", "a", 0), ConstantValueExpression(1)>>)>>,
   <<AggregateExpression("t", "a", 0), ColumnValueExpression("t", "a", 0)>>,
   <<ColumnValueExpression("t", "a", 0),
     OperatorExpression("+", <<AggregateExpression("t", "b", 0), ConstantValueExpression(1)>>)>>}

\* No GROUP BY, GROUP BY a, and GROUP BY a HAVING a > 1.
GroupBys ==
  {<<>>,
   <<GroupByDescription(<<ColumnValueExpression("t", "a", 0)>>, <<>>)>>,
   <<GroupByDescription(<<ColumnValueExpression("t", "a", 0)>>,
                        <<ComparisonExpression(">", ColumnValueExpression("t", "a", 0),
                                               ConstantValueExpression(1))>>)>>}

\* The select conditions: none, a < 1, and a = (SELECT max(b) FROM s).
AggregateSelectConditions ==
  {<<>>,
   <<ComparisonExpression("<", ColumnValueExpression("t", "a", 0), ConstantValueExpression(1))>>,
   <<ComparisonExpression("=", ColumnValueExpression("t", "a", 0),
       SubqueryExpression(BoundSelect(<<AggregateExpression("s", "b", 1)>>, "s", <<>>, 1)))>>}

AggregateInputs ==
  {GroupedSelect(cols, "t", where, 0, groupBy, distinct) :
     cols \in AggregateSelectLists, where \in AggregateSelectConditions,
     groupBy \in GroupBys, distinct \in BOOLEAN}

AggregateInit ==
  /\ catalog = SelectCatalog
  /\ stmt \in AggregateInputs
  /\ input = stmt
  /\ pc = "start"
  /\ error = NoError
  /\ firstBound = <<>>
  /\ frames = <<>>
  /\ sherpa = [cte_table_names |-> {}, serial |-> 1]
  /\ nextTempOid = 1
  /\ oob = {}
  /\ optimizer = NoOptimizer
  /\ txn = NoTxn
  /\ result = NoResult

SpecAggregate == AggregateInit /\ [][TransformNext]_vars

----------------------------------------------------------------------------
(* Properties of the aggregation *)

\* The select-list element holds an aggregate, itself or below an operator.
RECURSIVE ContainsAggregate(_)
ContainsAggregate(expr) ==
  \/ expr.kind = "AGGREGATE"
  \/ /\ expr.kind = "OPERATOR"
     /\ \E c \in 1..Len(expr.children) : ContainsAggregate(expr.children[c])

\* The select list mixes elements with an aggregate and elements without one.
Mixing(op) ==
  /\ \E i \in 1..Len(op.cols) : ContainsAggregate(op.cols[i])
  /\ \E i \in 1..Len(op.cols) : ~ContainsAggregate(op.cols[i])

\* The Aggregate nodes of the query itself: those from the root down the
\* first children (the tree of a sub-select is a second child).
RECURSIVE AggregateNodes(_)
AggregateNodes(node) ==
  (IF node.contents.op = "LogicalAggregateAndGroupBy" THEN 1 ELSE 0)
    + (IF node.children = <<>> THEN 0 ELSE AggregateNodes(node.children[1]))

\* C22: RequireAggregation returns true for every SELECT with GROUP BY; without
\* GROUP BY it raises the error when the select list holds both an element with
\* an aggregate and an element without one, and otherwise returns true exactly
\* when some element holds an aggregate; the finished tree has an Aggregate
\* node exactly when it returned true or the SELECT is a DISTINCT, and a tree
\* the error cut short has none.
C22_RequireAggregation ==
  Transforming =>
    /\ stmt.groupBy # <<>> => RequireAggregation(stmt) /\ ~RequireAggregationThrows(stmt)
    /\ stmt.groupBy = <<>> =>
         /\ RequireAggregationThrows(stmt) <=> Mixing(stmt)
         /\ ~Mixing(stmt) =>
              (RequireAggregation(stmt) <=>
                 \E i \in 1..Len(stmt.cols) : ContainsAggregate(stmt.cols[i]))
    /\ pc = "done" =>
         /\ ~RequireAggregationThrows(stmt)
         /\ AggregateNodes(optimizer.output_expr_[1]) =
              IF RequireAggregation(stmt) \/ stmt.distinct THEN 1 ELSE 0
    /\ (pc = "error" /\ optimizer.code = OptimizerError) =>
         AggregateNodes(optimizer.output_expr_[1]) = 0
    /\ (pc = "filter" /\ RequireAggregationThrows(stmt)) =>
         ENABLED (MakeFilter /\ pc' = "error" /\ optimizer'.code = OptimizerError)

\* SELECT DISTINCT a FROM t is finished with an Aggregate grouped by a over the
\* scan of t although RequireAggregation returned false.
C22_Witness ==
  /\ Transforming
  /\ pc = "done"
  /\ stmt.distinct
  /\ stmt.groupBy = <<>>
  /\ ~RequireAggregation(stmt)
  /\ optimizer.output_expr_[1] =
       OperatorNode(LogicalAggregateAndGroupByMake(<<ColumnValueExpression("t", "a", 0)>>),
                    <<OperatorNode(LogicalGet("t"), <<>>)>>)

----------------------------------------------------------------------------
(* The unnesting of sub-selects under EXISTS, IN and comparisons               *)
(* (query_to_operator_transformer.cpp, IsSupportedSubSelect and                *)
(* GenerateSubqueryTree), on sub-selects with and without aggregation.          *)

\* The select lists of the sub-selects over s: one column, one aggregate, an
\* aggregate with a column, two columns, two aggregates.
UnnestedSelectLists ==
  {<<ColumnValueExpression("s", "b", 1)>>,
   <<AggregateExpression("s", "b", 1)>>,
   <<AggregateExpression("s", "b", 1), ColumnValueExpression("s", "c", 1)>>,
   <<ColumnValueExpression("s", "b", 1), ColumnValueExpression("s", "c", 1)>>,
   <<AggregateExpression("s", "b", 1), AggregateExpression("s", "c", 1)>>}

\* The select conditions of the sub-selects: none, s.b = 1, t.a = s.b,
\* s.b = t.a, t.a < s.b, t.a = 1, t.a = t.a, 1 = 1, and t.a = s.b AND s.c = 1.
UnnestedConditions ==
  LET outer == ColumnValueExpression("t", "a", 0)
      inner == ColumnValueExpression("s", "b", 1)
      one == ConstantValueExpression(1)
  IN {<<>>,
      <<ComparisonExpression("=", inner, one)>>,
      <<ComparisonExpression("=", outer, inner)>>,
      <<ComparisonExpression("=", inner, outer)>>,
      <<ComparisonExpression("<", outer, inner)>>,
      <<ComparisonExpression("=", outer, one)>>,
      <<ComparisonExpression("=", outer, outer)>>,
      <<ComparisonExpression("=", one, one)>>,
      <<ComparisonExpression("=", outer, inner),
        ComparisonExpression("=", ColumnValueExpression("s", "c", 1), one)>>}

\* No GROUP BY, and GROUP BY b.
UnnestedGroupBys ==
  {<<>>, <<GroupByDescription(<<ColumnValueExpression("s", "b", 1)>>, <<>>)>>}

UnnestedSubSelects ==
  {GroupedSelect(cols, "s", where, 1, groupBy, FALSE) :
     cols \in UnnestedSelectLists, where \in UnnestedConditions, groupBy \in UnnestedGroupBys}

\* EXISTS (sub), a IN (sub), a = (sub) and (sub) > a.
UnnestingConjuncts ==
  UNION {{OperatorExpression("EXISTS", <<SubqueryExpression(sub)>>),
          ComparisonExpression("IN", ColumnValueExpression("t", "a", 0), SubqueryExpression(sub)),
          ComparisonExpression("=", ColumnValueExpression("t", "a", 0), SubqueryExpression(sub)),
          ComparisonExpression(">", SubqueryExpression(sub), ColumnValueExpression("t", "a", 0))} :
         sub \in UnnestedSubSelects}

\* The conjuncts around the one with the sub-select under study.
PlainConjunct ==
  ComparisonExpression("<", ColumnValueExpression("t", "a", 0), ConstantValueExpression(1))

OtherExists ==
  OperatorExpression("EXISTS",
    <<SubqueryExpression(BoundSelect(<<ColumnValueExpression("u", "d", 1)>>, "u", <<>>, 1))>>)

NotOperator ==
  OperatorExpression("NOT", <<PlainConjunct>>)

UnnestingInputs ==
  {BoundSelect(<<ColumnValueExpression("t", "a", 0)>>, "t", where, 0) :
     where \in {<<c>> : c \in UnnestingConjuncts}
                 \cup {<<OtherExists, c>> : c \in UnnestingConjuncts}
                 \cup {<<NotOperator>>, <<>>}}

UnnestingInit ==
  /\ catalog = SelectCatalog
  /\ stmt \in UnnestingInputs
  /\ input = stmt
  /\ pc = "start"
  /\ error = NoError
  /\ firstBound = <<>>
  /\ frames = <<>>
  /\ sherpa = [cte_table_names |-> {}, serial |-> 1]
  /\ nextTempOid = 1
  /\ oob = {}
  /\ optimizer = NoOptimizer
  /\ txn = NoTxn
  /\ result = NoResult

SpecUnnesting == UnnestingInit /\ [][TransformNext]_vars

----------------------------------------------------------------------------
(* Properties of the unnesting *)

\* The conjunct with the sub-select under study: the last of the select
\* condition, and its sub-select.
StudiedAt == Len(input.where)

StudiedSubSelect ==
  LET conj == input.where[StudiedAt]
      c == CHOOSE c \in 1..Len(conj.children) : conj.children[c].kind = "ROW_SUBQUERY"
  IN conj.children[c].subselect

\* A select condition of the statement is being unnested.
Unnesting ==
  /\ Transforming
  /\ input.where # <<>>
  /\ HasSubquery(input.where[StudiedAt])

\* The sub-select performs aggregation: it has a GROUP BY or an aggregate in
\* its select list.
Aggregates(op) ==
  op.groupBy # <<>> \/ \E i \in 1..Len(op.cols) : ContainsAggregate(op.cols[i])

\* The select list makes RequireAggregation raise the mixing error.
MixingError(op) == op.groupBy = <<>> /\ Mixing(op)

\* The depth of a conjunct: the smallest depth of an operand that has one.
ConjunctDepth(pred) ==
  LET ds == {pred.children[c].depth : c \in 1..2} \ {-1}
  IN IF ds = {} THEN -1 ELSE CHOOSE d \in ds : \A e \in ds : d <= e

\* The rule of the join rewrite: no aggregation, or every conjunct of lesser
\* depth is an equality of an outer column reference and an operand of the
\* depth of the sub-select.
Eligible(op) ==
  \/ ~Aggregates(op)
  \/ \A k \in 1..Len(op.where) :
       LET pred == op.where[k]
       IN ConjunctDepth(pred) < op.depth =>
            /\ pred.type = "="
            /\ \E c \in 1..2 :
                 /\ pred.children[c].kind = "COLUMN_VALUE"
                 /\ pred.children[c].depth < op.depth
                 /\ pred.children[3 - c].depth = op.depth

\* The joins in a tree.
RECURSIVE JoinNodes(_)
JoinNodes(node) ==
  (IF node.contents.op \in {"LogicalSingleJoin", "LogicalMarkJoin"} THEN 1 ELSE 0)
    + (IF node.children = <<>> THEN 0 ELSE JoinNodes(node.children[1]))
    + (IF Len(node.children) < 2 THEN 0 ELSE JoinNodes(node.children[2]))

\* The visit of the studied conjunct is next, has failed, has succeeded.
StudiedNext == pc = "accept" /\ optimizer.j = StudiedAt
StudiedFailed == pc = "error" /\ optimizer.j = StudiedAt
StudiedDone == pc \in {"accept", "filter", "done"} /\ optimizer.j > StudiedAt

\* The joins made before the studied conjunct was visited.
JoinsBefore == StudiedAt - 1

\* C23 as stated: a sub-select is accepted for the join rewrite exactly when
\* it performs no aggregation or aggregates with every conjunct of lesser
\* depth an equality of an outer column and an operand of its own depth; every
\* other sub-select fails the transform with a not-implemented error and no
\* join node is added.
C23_AcceptedIffEligible ==
  Unnesting =>
    LET sub == StudiedSubSelect
    IN /\ StudiedNext =>
            ((~RequireAggregationThrows(sub) /\ IsSupportedSubSelect(sub)) <=> Eligible(sub))
       /\ StudiedDone => Eligible(sub)
       /\ (StudiedFailed /\ ~Eligible(sub)) =>
            /\ optimizer.code = NotImplemented
            /\ JoinNodes(optimizer.output_expr_[1]) = JoinsBefore

\* C23: a sub-select whose select list does not raise the mixing error of
\* RequireAggregation is accepted for the join rewrite exactly when it performs
\* no aggregation or aggregates with every conjunct of lesser depth an equality
\* of an outer column and an operand of its own depth; every other such
\* sub-select fails the transform with a not-implemented error, a sub-select
\* with a mixing select list fails it with the mixing error, and in both cases
\* no join node is added.
C23_AcceptedIffEligibleUnlessMixing ==
  Unnesting =>
    LET sub == StudiedSubSelect
    IN /\ StudiedNext =>
            /\ RequireAggregationThrows(sub) <=> MixingError(sub)
            /\ ~MixingError(sub) => (IsSupportedSubSelect(sub) <=> Eligible(sub))
       /\ StudiedDone => Eligible(sub) /\ ~MixingError(sub)
       /\ (StudiedFailed /\ ~MixingError(sub) /\ ~Eligible(sub)) =>
            /\ optimizer.code = NotImplemented
            /\ JoinNodes(optimizer.output_expr_[1]) = JoinsBefore
       /\ (StudiedFailed /\ MixingError(sub)) =>
            /\ optimizer.code = OptimizerError
            /\ JoinNodes(optimizer.output_expr_[1]) = JoinsBefore

\* a = (SELECT max(b) FROM s WHERE t.a < s.b) has failed with the
\* not-implemented error and the tree is still the scan of t.
C23_Witness ==
  /\ Unnesting
  /\ StudiedFailed
  /\ StudiedAt = 1
  /\ input.where[1].type = "="
  /\ StudiedSubSelect.cols = <<AggregateExpression("s", "b", 1)>>
  /\ StudiedSubSelect.groupBy = <<>>
  /\ StudiedSubSelect.where =
       <<ComparisonExpression("<", ColumnValueExpression("t", "a", 0),
                              ColumnValueExpression("s", "b", 1))>>
  /\ optimizer.code = NotImplemented
  /\ optimizer.output_expr_ = <<OperatorNode(LogicalGet("t"), <<>>)>>

----------------------------------------------------------------------------
(* EXISTS and IN over a sub-select *)

\* The studied conjunct is an EXISTS over a sub-select or an IN whose right
\* operand is a sub-select; SubqueryAt is the position of that operand.
MarkJoinConjunct ==
  /\ Unnesting
  /\ \/ input.where[StudiedAt].type = "EXISTS"
     \/ input.where[StudiedAt].type = "IN"

SubqueryAt == IF input.where[StudiedAt].type = "EXISTS" THEN 1 ELSE 2

\* The studied conjunct has just been visited with success.
StudiedJustDone == pc = "accept" /\ optimizer.j = StudiedAt + 1

\* What a successful visit of the studied conjunct leaves: the Mark-Join of
\* the tree built before and the tree of the sub-select, the sub-select
\* operand replaced by the one select-list expression, EXISTS turned into
\* IS NOT NULL.
MarkJoinMade ==
  LET sub == StudiedSubSelect
      orig == input.where[StudiedAt]
      now == stmt.where[StudiedAt]
      join == optimizer.output_expr_[1]
  IN /\ Len(sub.cols) = 1
     /\ join.contents = LogicalMarkJoin
     /\ Len(join.children) = 2
     /\ join.children[1] = optimizer.prev[1]
     /\ join.children[2] = TransformSelect(sub).output_expr
     /\ now.children[SubqueryAt] = sub.cols[1]
     /\ Len(now.children) = Len(orig.children)
     /\ \A c \in 1..Len(orig.children) : c # SubqueryAt => now.children[c] = orig.children[c]
     /\ now.type = IF orig.type = "EXISTS" THEN "IS_NOT_NULL" ELSE "IN"

\* C24 as stated: the transform of EXISTS over a sub-select, or of IN with a
\* sub-select as right operand, leaves a Mark-Join with the enclosing tree as
\* first and the tree of the sub-select as second child, the sub-select operand
\* replaced by the single select-list expression and EXISTS turned into
\* IS NOT NULL; a sub-select whose select list does not have exactly one
\* column fails with a not-implemented error.
C24_MarkJoinOrNotImplemented ==
  MarkJoinConjunct =>
    /\ StudiedJustDone => MarkJoinMade
    /\ StudiedDone => Len(StudiedSubSelect.cols) = 1
    /\ (StudiedFailed /\ Len(StudiedSubSelect.cols) # 1) => optimizer.code = NotImplemented

\* C24: the transform of EXISTS over a sub-select, or of IN with a sub-select
\* as right operand, leaves a Mark-Join with the enclosing tree as first and
\* the tree of the sub-select as second child, the sub-select operand replaced
\* by the single select-list expression and EXISTS turned into IS NOT NULL; a
\* sub-select whose select list does not have exactly one column fails with a
\* not-implemented error, unless the list mixes aggregates and other elements
\* without GROUP BY, which fails with the mixing error of RequireAggregation.
C24_MarkJoinOrNotImplementedUnlessMixing ==
  MarkJoinConjunct =>
    /\ StudiedJustDone => MarkJoinMade
    /\ StudiedDone => Len(StudiedSubSelect.cols) = 1
    /\ (StudiedFailed /\ Len(StudiedSubSelect.cols) # 1) =>
         optimizer.code = IF MixingError(StudiedSubSelect) THEN OptimizerError
                          ELSE NotImplemented

\* EXISTS (SELECT b FROM s WHERE s.b = t.a) has become s.b IS NOT NULL over the
\* Mark-Join of the scan of t and the filtered scan of s.
C24_Witness ==
  /\ MarkJoinConjunct
  /\ StudiedJustDone
  /\ StudiedAt = 1
  /\ input.where[1].type = "EXISTS"
  /\ stmt.where[1] =
       [OperatorExpression("EXISTS", <<ColumnValueExpression("s", "b", 1)>>)
          EXCEPT !.type = "IS_NOT_NULL"]
  /\ optimizer.output_expr_ =
       <<OperatorNode(LogicalMarkJoin,
           <<OperatorNode(LogicalGet("t"), <<>>),
             OperatorNode(
               LogicalFilter(<<ComparisonExpression("=", ColumnValueExpression("s", "b", 1),
                                                    ColumnValueExpression("t", "a", 0))>>),
               <<OperatorNode(LogicalGet("s"), <<>>)>>)>>)>>

----------------------------------------------------------------------------
(* The two WITH loops of Visit(SelectStatement) around a FROM list            *)
(* (query_to_operator_transformer.cpp, lines 74-143, 146-154, 246-261).        *)

\* Visit(TableRef) of a list, lines 369-387: the rounds from element i on,
\* prev_expr the join made so far.
RECURSIVE JoinTableList(_, _, _, _)
JoinTableList(x, list, i, prev_expr) ==
  IF i > Len(list) THEN [x EXCEPT !.output_expr_ = prev_expr]
  ELSE Only({JoinTableList(v, list, i + 1, InnerJoinOver(prev_expr, v.output_expr_)) :
             v \in {VisitListElement(x, list[i])}})

\* Visit(TableRef) of the FROM clause: the list branch, or the single-table
\* branch for a list of one element (line 390).
VisitTableList(x, list) ==
  IF Len(list) = 1 THEN VisitSingleTable(x, list[1].name)
  ELSE Only({JoinTableList(v, list, 2, v.output_expr_) :
             v \in {VisitListElement(x, list[1])}})

\* Lines 146-154 of a SELECT whose FROM clause is a list: the first loop is
\* over and the second one starts on the tree of the FROM clause.
TransformFromList ==
  /\ TransformingCte /\ pc = "with"
  /\ optimizer.w > Len(stmt.with)
  /\ \E x \in {VisitTableList(CurrentTransformer, stmt.list)} :
       optimizer' = CteOptimizer(x, "reattach", 1, <<x.output_expr_>>, optimizer.runs)
  /\ pc' = "reattach"
  /\ UNCHANGED <<catalog, stmt, error, input, firstBound, frames, sherpa, nextTempOid, oob,
                 txn, result>>

(* Inputs: WITH v AS (..) [, w AS (..)] SELECT .. FROM list *)

WithListSelect(with, list) ==
  [kind |-> "WITH_SELECT", with |-> with, from |-> "", list |-> list, unsupported |-> FALSE]

\* The WITH clauses: v over t alone, v and w both over t, and w over v.
ReattachWithClauses ==
  LET overT == WithSelect(<<>>, "t", FALSE)
      overV == WithSelect(<<>>, "v", FALSE)
  IN {<<WithEntry("v", 1, overT)>>,
      <<WithEntry("v", 1, overT), WithEntry("w", 1, overT)>>,
      <<WithEntry("v", 1, overT), WithEntry("w", 1, overV)>>}

\* The FROM lists: one to three of t, v and w.
ReattachFromLists ==
  UNION {{[k \in 1..n |-> SingleTableRef(f[k])] : f \in [1..n -> {"t", "v", "w"}]} : n \in 1..3}

ReattachStatements ==
  {WithListSelect(with, list) : with \in ReattachWithClauses, list \in ReattachFromLists}

ReattachInit ==
  /\ catalog = SelectCatalog
  /\ stmt \in ReattachStatements
  /\ input = stmt
  /\ pc = "with"
  /\ error = NoError
  /\ firstBound = <<>>
  /\ frames = <<>>
  /\ sherpa = [cte_table_names |-> {}, serial |-> 1]
  /\ nextTempOid = 1
  /\ oob = {}
  /\ optimizer = CteOptimizer(Transformer(NoTree, <<>>, TransactionContext), "with", 1, <<>>, 1)
  /\ txn = TransactionContext
  /\ result = NoResult

ReattachNext ==
  \/ TransformWithEntry
  \/ TransformFromList
  \/ ReattachWithEntry
  \/ FinishTransform

SpecReattach == ReattachInit /\ [][ReattachNext]_vars

----------------------------------------------------------------------------
(* Properties of the re-attachment of CTE subtrees *)

\* The scans of the CTE name in a tree, in depth-first, leftmost order; inside
\* tells whether the scan lies below another scan.
RECURSIVE CteScans(_, _, _)
RECURSIVE CteScansOf(_, _, _, _)
CteScansOf(children, name, inside, k) ==
  IF k > Len(children) THEN <<>>
  ELSE CteScans(children[k], name, inside) \o CteScansOf(children, name, inside, k + 1)

CteScans(node, name, inside) ==
  (IF node.contents.op = "LogicalCteScan" /\ node.contents.table = name
     THEN <<[children |-> node.children, inside |-> inside]>>
     ELSE <<>>)
    \o CteScansOf(node.children, name,
                  inside \/ node.contents.op = "LogicalCteScan", 1)

\* The statement references the CTE at position k of its WITH clause: in the
\* FROM list, or from the body of a later CTE.
InFromList(name) == \E i \in 1..Len(stmt.list) : stmt.list[i].name = name

Referenced(k) ==
  \/ InFromList(stmt.with[k].alias)
  \/ \E l \in (k + 1)..Len(stmt.with) :
       /\ stmt.with[l].select.from = stmt.with[k].alias
       /\ InFromList(stmt.with[l].alias)

\* The defining subtree of the CTE at position k, as the second loop builds it.
DefiningSubtree(k) ==
  VisitDerivedTable(Transformer(NoTree, optimizer.cte_table_name_, TransactionContext),
                    stmt.with[k]).output_expr_

Reattached == TransformingCte /\ "list" \in DOMAIN stmt /\ pc = "done"

\* C25: in the finished tree every CTE of the WITH clause that the query
\* references, in FROM or only from the body of a later CTE, has its defining
\* subtree as the child of exactly one scan of its name, the first in
\* depth-first, leftmost order of the scans the FROM clause made; no other
\* scan of that name has a child.
C25_CteAttachedToFirstScan ==
  Reattached =>
    \A k \in 1..Len(stmt.with) :
      Referenced(k) =>
        LET scans == CteScans(optimizer.output_expr_[1], stmt.with[k].alias, FALSE)
            holders == {i \in 1..Len(scans) : scans[i].children # <<>>}
        IN /\ Cardinality(holders) = 1
           /\ \A i \in holders :
                /\ scans[i].children = <<DefiningSubtree(k)>>
                /\ \A h \in 1..(i - 1) : scans[h].inside

----------------------------------------------------------------------------
(* TrafficCop: transactions of one connection, transaction statements and     *)
(* the commit countdown (src/src/traffic_cop/traffic_cop.cpp, lines 55-183).    *)

\* Largest number of transactions one connection begins.
MaxTxns == 2

\* The (durability, replication) policies of a transaction; ASYNC durability
\* with SYNC replication and replication without durability are the cases the
\* constructor of CommitCallbackArg asserts away.
TransactionPolicy(durability, replication) ==
  [durability_ |-> durability, replication_ |-> replication]

SupportedPolicies ==
  {TransactionPolicy("DISABLE", "DISABLE"), TransactionPolicy("ASYNC", "DISABLE"),
   TransactionPolicy("SYNC", "DISABLE"), TransactionPolicy("ASYNC", "ASYNC"),
   TransactionPolicy("SYNC", "ASYNC"), TransactionPolicy("SYNC", "SYNC")}

\* The constructor with the second increment left out.
CommitCallbackArg_NoReplication(policy) == 0 + 1

\* CommitCallbackArg(policy), lines 59-90: the value of persist_countdown_.
CommitCallbackArg(policy) ==
  0 + 1 + (IF policy.replication_ # "DISABLE"
             THEN IF policy.durability_ = "ASYNC" /\ policy.replication_ = "ASYNC" THEN 0 ELSE 1
             ELSE 0)

\* The components that invoke the commit callback of a transaction (lines
\* 65-69): the TransactionManager alone, or the DiskLogConsumerTask, joined by
\* the PrimaryReplicationManager when the transaction is replicated.
CallbackInvokers(policy) ==
  IF policy.durability_ = "SYNC"
    THEN IF policy.replication_ = "DISABLE" THEN {"DiskLogConsumerTask"}
         ELSE {"DiskLogConsumerTask", "PrimaryReplicationManager"}
    ELSE {"TransactionManager"}

Components == {"TransactionManager", "DiskLogConsumerTask", "PrimaryReplicationManager"}

\* One invocation of CommitCallback: where it is, and its count_before_sub.
NotInvoked == [at |-> "none", count_before_sub |-> 0]

\* The connection: its transaction (<<>> for nullptr) and accessor, whether
\* the interpreter is in an explicit transaction block, the CommitCallbackArg
\* of the commit in progress, the invocations of CommitCallback, the outcomes
\* of the transactions ended, and the number of transactions begun.
ConnectionContext ==
  [transaction |-> <<>>, accessor |-> FALSE, explicit_txn_block |-> FALSE, cb_arg |-> <<>>,
   callbacks |-> [c \in Components |-> NotInvoked], ended |-> <<>>, begun |-> 0]

\* ConnectionContext::TransactionState.
TransactionState(c) ==
  IF c.transaction = <<>> THEN "IDLE"
  ELSE IF c.transaction[1].must_abort THEN "FAIL"
  ELSE "BLOCK"

\* A transaction statement as handed to ExecuteTransactionStatement.
TransactionStatement(query_type, explicit_txn_block, state, caller) ==
  [kind |-> "TRANSACTION", query_type |-> query_type, explicit_txn_block |-> explicit_txn_block,
   state |-> state, caller |-> caller]

WriteError(message) == [packet |-> "Error", severity |-> "WARNING", message |-> message]
WriteCommandComplete(query_type) ==
  [packet |-> "CommandComplete", severity |-> "", message |-> query_type]

OnConnection == stmt.kind = "TRANSACTION"

\* EndTransaction with QUERY_ROLLBACK, lines 129-135.
AbortTransaction_KeepAccessor(c) ==
  [c EXCEPT !.transaction = <<>>, !.ended = Append(@, "aborted")]

AbortTransaction(c) ==
  [c EXCEPT !.transaction = <<>>, !.accessor = FALSE, !.ended = Append(@, "aborted")]

\* EndTransaction with QUERY_COMMIT up to future.wait(), lines 119-126: the
\* callback argument is made and the transaction handed to the manager,
\* whose components will invoke the callback.
CommitTransaction(c) ==
  [c EXCEPT !.cb_arg = <<[persist_countdown_ |-> CommitCallbackArg(c.transaction[1].policy),
                          ready_to_commit_ |-> 0]>>,
            !.callbacks = [k \in Components |->
                             IF k \in CallbackInvokers(c.transaction[1].policy)
                               THEN [at |-> "invoked", count_before_sub |-> 0]
                               ELSE NotInvoked],
            !.ended = Append(@, "committed")]

\* EndTransaction after future.wait(), lines 127-128 and 134-135.
CommitDone(c) == [c EXCEPT !.transaction = <<>>, !.accessor = FALSE, !.cb_arg = <<>>]

\* No invocation of CommitCallback is under way.
CallbacksReturned(c) == \A k \in Components : c.callbacks[k].at \in {"none", "returned"}

\* BeginTransaction, lines 105-112.
BeginTransaction ==
  /\ OnConnection /\ pc = "idle"
  /\ TransactionState(txn) = "IDLE"
  /\ txn.begun < MaxTxns
  /\ \E policy \in SupportedPolicies :
       txn' = [txn EXCEPT !.transaction = <<[policy |-> policy, must_abort |-> FALSE]>>,
                          !.accessor = TRUE,
                          !.begun = @ + 1]
  /\ UNCHANGED <<catalog, stmt, pc, error, input, firstBound, frames, sherpa, nextTempOid, oob,
                 optimizer, result>>

\* A statement of the transaction fails: SetMustAbort (lines 297, 351, 603).
SetMustAbort ==
  /\ OnConnection /\ pc = "idle"
  /\ TransactionState(txn) = "BLOCK"
  /\ txn' = [txn EXCEPT !.transaction[1].must_abort = TRUE]
  /\ UNCHANGED <<catalog, stmt, pc, error, input, firstBound, frames, sherpa, nextTempOid, oob,
                 optimizer, result>>

\* ExecuteTransactionStatement, lines 138-183, up to its return or up to the
\* wait of a commit.  The caller has a transaction open, passes the
\* interpreter's explicit_txn_block and sends only COMMIT and ROLLBACK in
\* state FAIL.
ExecuteTransactionStatement ==
  /\ OnConnection /\ pc = "idle"
  /\ TransactionState(txn) # "IDLE"
  /\ CallbacksReturned(txn)
  /\ \E query_type \in {"BEGIN", "COMMIT", "ROLLBACK"} :
       /\ TransactionState(txn) = "FAIL" => query_type # "BEGIN"
       /\ stmt' = TransactionStatement(query_type, txn.explicit_txn_block, TransactionState(txn),
                                       "ExecuteTransactionStatement")
       /\ IF query_type = "BEGIN"
            THEN /\ result' = (IF txn.explicit_txn_block
                                 THEN <<WriteError("there is already a transaction in progress")>>
                                 ELSE <<>>) \o <<WriteCommandComplete(query_type)>>
                 /\ pc' = "executed"
                 /\ UNCHANGED txn
          ELSE IF ~txn.explicit_txn_block
            THEN /\ result' = <<WriteError("there is no transaction in progress"),
                                WriteCommandComplete(query_type)>>
                 /\ pc' = "executed"
                 /\ UNCHANGED txn
          ELSE IF query_type = "COMMIT" /\ TransactionState(txn) = "FAIL"
            THEN /\ txn' = AbortTransaction(txn)
                 /\ result' = <<WriteCommandComplete("ROLLBACK")>>
                 /\ pc' = "executed"
          ELSE IF query_type = "COMMIT"
            THEN /\ txn' = CommitTransaction(txn)
                 /\ result' = <<>>
                 /\ pc' = "waiting"
          ELSE /\ txn' = AbortTransaction(txn)
               /\ result' = <<WriteCommandComplete(query_type)>>
               /\ pc' = "executed"
  /\ UNCHANGED <<catalog, error, input, firstBound, frames, sherpa, nextTempOid, oob, optimizer>>

\* CommitCallback, line 95: fetch_sub(1) on the uint8 countdown, by one of the
\* components that invoke the callback.
CommitCallbackFetchSub ==
  /\ OnConnection
  /\ \E k \in Components :
       /\ txn.callbacks[k].at = "invoked"
       /\ txn.cb_arg # <<>>
       /\ txn' = [txn EXCEPT
                    !.callbacks[k] = [at |-> "subtracted",
                                      count_before_sub |-> txn.cb_arg[1].persist_countdown_],
                    !.cb_arg[1].persist_countdown_ = (@ - 1) % 256]
  /\ UNCHANGED <<catalog, stmt, pc, error, input, firstBound, frames, sherpa, nextTempOid, oob,
                 optimizer, result>>

\* CommitCallback, lines 99-102: the last callback sets the promise.
CommitCallbackReturn ==
  /\ OnConnection
  /\ \E k \in Components :
       /\ txn.callbacks[k].at = "subtracted"
       /\ IF txn.callbacks[k].count_before_sub = 1
            THEN /\ txn.cb_arg # <<>>
                 /\ txn' = [txn EXCEPT !.callbacks[k].at = "returned",
                                       !.cb_arg[1].ready_to_commit_ = @ + 1]
            ELSE txn' = [txn EXCEPT !.callbacks[k].at = "returned"]
  /\ UNCHANGED <<catalog, stmt, pc, error, input, firstBound, frames, sherpa, nextTempOid, oob,
                 optimizer, result>>

\* future.wait() returns: EndTransaction and its caller finish (lines 127-135,
\* and line 183 when the caller is ExecuteTransactionStatement).
CommitReady ==
  /\ OnConnection /\ pc = "waiting"
  /\ txn.cb_arg[1].ready_to_commit_ > 0
  /\ txn' = CommitDone(txn)
  /\ IF stmt.caller = "ExecuteTransactionStatement"
       THEN /\ result' = Append(result, WriteCommandComplete(stmt.query_type))
            /\ pc' = "executed"
       ELSE /\ UNCHANGED result
            /\ pc' = "idle"
  /\ UNCHANGED <<catalog, stmt, error, input, firstBound, frames, sherpa, nextTempOid, oob,
                 optimizer>>

\* The network layer after a transaction statement: BEGIN opens the explicit
\* block, COMMIT and ROLLBACK close it.
FinishTransactionStatement ==
  /\ OnConnection /\ pc = "executed"
  /\ txn' = [txn EXCEPT !.explicit_txn_block = (stmt.query_type = "BEGIN")]
  /\ pc' = "idle"
  /\ UNCHANGED <<catalog, stmt, error, input, firstBound, frames, sherpa, nextTempOid, oob,
                 optimizer, result>>

\* The network layer ends the transaction of a statement outside an explicit
\* block: EndTransaction with ROLLBACK when it must abort, with COMMIT
\* otherwise.
EndImplicitTransaction ==
  /\ OnConnection /\ pc = "idle"
  /\ ~txn.explicit_txn_block
  /\ TransactionState(txn) # "IDLE"
  /\ CallbacksReturned(txn)
  /\ stmt' = TransactionStatement(IF TransactionState(txn) = "FAIL" THEN "ROLLBACK" ELSE "COMMIT",
                                  FALSE, TransactionState(txn), "network")
  /\ IF TransactionState(txn) = "FAIL"
       THEN /\ txn' = AbortTransaction(txn)
            /\ pc' = "idle"
       ELSE /\ txn' = CommitTransaction(txn)
            /\ pc' = "waiting"
  /\ UNCHANGED <<catalog, error, input, firstBound, frames, sherpa, nextTempOid, oob, optimizer,
                 result>>

ConnectionInit ==
  /\ catalog = SelectCatalog
  /\ stmt = TransactionStatement("", FALSE, "IDLE", "")
  /\ input = stmt
  /\ pc = "idle"
  /\ error = NoError
  /\ firstBound = <<>>
  /\ frames = <<>>
  /\ sherpa = [cte_table_names |-> {}, serial |-> 1]
  /\ nextTempOid = 1
  /\ oob = {}
  /\ optimizer = NoOptimizer
  /\ txn = ConnectionContext
  /\ result = NoResult

ConnectionNext ==
  \/ BeginTransaction
  \/ SetMustAbort
  \/ ExecuteTransactionStatement
  \/ CommitCallbackFetchSub
  \/ CommitCallbackReturn
  \/ CommitReady
  \/ FinishTransactionStatement
  \/ EndImplicitTransaction

SpecConnection == ConnectionInit /\ [][ConnectionNext]_vars

----------------------------------------------------------------------------
(* Properties of the commit countdown *)

\* The table of lines 63-69: the countdown a policy starts with.
PolicyTable(policy) ==
  IF policy.durability_ = "SYNC" /\ policy.replication_ \in {"ASYNC", "SYNC"} THEN 2 ELSE 1

\* The invocations of CommitCallback that have done their fetch_sub.
Subtracted == {k \in Components : txn.callbacks[k].at \in {"subtracted", "returned"}}

\* A commit is waiting for its promise.
Committing == OnConnection /\ pc = "waiting"

\* C26: for every supported policy the countdown starts at the 1 or 2 of the
\* policy table, every invocation of CommitCallback decrements it exactly
\* once, none decrements it at 0, and the promise is set at most once at any
\* moment and exactly once, by the invocation that found the countdown at 1,
\* when all invocations have returned, whatever the order in which the
\* invocations take their steps.
C26_CommitCountdown ==
  Committing =>
    LET policy == txn.transaction[1].policy
        arg == txn.cb_arg[1]
    IN /\ policy \in SupportedPolicies
       /\ PolicyTable(policy) \in {1, 2}
       /\ arg.persist_countdown_ = PolicyTable(policy) - Cardinality(Subtracted)
       /\ \A k \in Subtracted : txn.callbacks[k].count_before_sub # 0
       /\ arg.ready_to_commit_ =
            Cardinality({k \in Components : /\ txn.callbacks[k].at = "returned"
                                            /\ txn.callbacks[k].count_before_sub = 1})
       /\ arg.ready_to_commit_ <= 1
       /\ Cardinality({k \in Subtracted : txn.callbacks[k].count_before_sub = 1}) <= 1
       /\ CallbacksReturned(txn) => arg.ready_to_commit_ = 1

\* A SYNC/SYNC commit whose two callbacks have both returned: the first found
\* the countdown at 2, the second at 1 and set the promise.
C26_Witness ==
  /\ Committing
  /\ txn.transaction[1].policy = TransactionPolicy("SYNC", "SYNC")
  /\ txn.callbacks["PrimaryReplicationManager"] = [at |-> "returned", count_before_sub |-> 2]
  /\ txn.callbacks["DiskLogConsumerTask"] = [at |-> "returned", count_before_sub |-> 1]
  /\ txn.cb_arg[1] = [persist_countdown_ |-> 0, ready_to_commit_ |-> 1]

----------------------------------------------------------------------------
(* Properties of transaction statements *)

\* ExecuteTransactionStatement has returned.
Executed == OnConnection /\ pc = "executed"

\* C27: when ExecuteTransactionStatement has returned from a COMMIT inside an
\* explicit block in state FAIL, the transaction was aborted, not committed,
\* and ROLLBACK is the one command reported complete; from a COMMIT or ROLLBACK
\* outside an explicit block, the transaction is still open and none was
\* ended; from any statement that called EndTransaction, the connection has
\* neither a transaction nor an accessor; and the connection has an accessor
\* exactly when it has a transaction.
C27_TransactionStatements ==
  OnConnection =>
    /\ (txn.transaction = <<>>) <=> ~txn.accessor
    /\ Executed =>
         /\ (stmt.query_type = "COMMIT" /\ stmt.explicit_txn_block /\ stmt.state = "FAIL") =>
              /\ txn.ended # <<>>
              /\ txn.ended[Len(txn.ended)] = "aborted"
              /\ result = <<WriteCommandComplete("ROLLBACK")>>
         /\ (stmt.query_type \in {"COMMIT", "ROLLBACK"} /\ ~stmt.explicit_txn_block) =>
              /\ txn.transaction # <<>>
              /\ TransactionState(txn) = stmt.state
              /\ Len(txn.ended) = txn.begun - 1
         /\ (stmt.query_type \in {"COMMIT", "ROLLBACK"} /\ stmt.explicit_txn_block) =>
              /\ txn.transaction = <<>>
              /\ ~txn.accessor
              /\ Len(txn.ended) = txn.begun

\* COMMIT in an explicit block whose transaction must abort has returned: the
\* transaction is gone, aborted, and ROLLBACK was reported.
C27_Witness ==
  /\ Executed
  /\ stmt.query_type = "COMMIT"
  /\ stmt.explicit_txn_block
  /\ stmt.state = "FAIL"
  /\ txn.transaction = <<>>
  /\ ~txn.accessor
  /\ txn.ended = <<"aborted">>
  /\ result = <<WriteCommandComplete("ROLLBACK")>>

----------------------------------------------------------------------------
(* The predicate accumulator predicates_ of the transformer across nested      *)
(* SELECTs (query_to_operator_transformer.cpp, lines 65-72, 146-168, 262-277).  *)

LogicalUnion == [op |-> "LogicalUnion", table |-> "", predicates |-> <<>>]

\* A bound SELECT whose FROM clause is a table reference (a table, or a
\* derived table with its SELECT) and which may have a UNION side.
NestingSelect(cols, from, where, depth, union) ==
  [kind |-> "SELECT", cols |-> cols, from |-> from, where |-> where, depth |-> depth,
   groupBy |-> <<>>, distinct |-> FALSE, union |-> union]

\* The fields of the transformer a visit reads and writes, and the exception
\* it threw ("" when it returned).
Accumulator(output_expr, predicates, code) ==
  [output_expr_ |-> output_expr, predicates_ |-> predicates, code |-> code]

RECURSIVE VisitSelectStatement(_, _)

\* GenerateSubqueryTree(expr, child_id, single_join) on the transformer x:
\* done is the value returned, node the expression as rewritten.
GenerateSubqueryTreeOn(x, expr, child_id, single_join) ==
  LET subquery_expr == expr.children[child_id]
      sub_select == subquery_expr.subselect
      none == [done |-> FALSE, x |-> x, node |-> expr]
      join == IF single_join THEN LogicalSingleJoin ELSE LogicalMarkJoin
  IN IF subquery_expr.kind # "ROW_SUBQUERY" THEN none
     ELSE IF RequireAggregationThrows(sub_select)
       THEN [none EXCEPT !.x.code = OptimizerError]
     ELSE IF ~IsSupportedSubSelect(sub_select) \/ Len(sub_select.cols) # 1
       THEN [none EXCEPT !.x.code = NotImplemented]
     ELSE Only({IF sub.code # "" THEN [none EXCEPT !.x = sub]
                ELSE [done |-> TRUE,
                      x |-> [sub EXCEPT !.output_expr_ =
                               OperatorNode(join, <<x.output_expr_, sub.output_expr_>>)],
                      node |-> [expr EXCEPT !.children[child_id] = sub_select.cols[1]]] :
                sub \in {VisitSelectStatement(x, sub_select)}})

\* expr->Accept on one conjunct of a condition: Visit(OperatorExpression) or
\* Visit(ComparisonExpression) on the transformer x.
AcceptConjunctOn(x, expr) ==
  IF expr.kind = "OPERATOR"
    THEN IF expr.type = "EXISTS"
           THEN Only({[r EXCEPT !.node.type = IF r.done THEN "IS_NOT_NULL" ELSE @] :
                      r \in {GenerateSubqueryTreeOn(x, expr, 1, FALSE)}})
           ELSE [done |-> FALSE, x |-> x, node |-> expr]
  ELSE IF expr.type = "IN" THEN GenerateSubqueryTreeOn(x, expr, 2, FALSE)
  ELSE IF /\ expr.children[1].kind = "ROW_SUBQUERY"
          /\ expr.children[2].kind = "ROW_SUBQUERY"
    THEN [done |-> FALSE, x |-> [x EXCEPT !.code = NotImplemented], node |-> expr]
  ELSE Only({IF r0.done \/ r0.x.code # "" THEN r0
             ELSE GenerateSubqueryTreeOn(x, expr, 2, TRUE) :
             r0 \in {GenerateSubqueryTreeOn(x, expr, 1, TRUE)}})

\* expr->Accept of CollectPredicates over the conjuncts from position j on:
\* the transformer after the visits and the conjuncts as rewritten.
RECURSIVE AcceptConjunctsOn(_, _, _)
AcceptConjunctsOn(x, where, j) ==
  IF j > Len(where) THEN [x |-> x, where |-> where]
  ELSE Only({IF r.x.code # "" THEN [x |-> r.x, where |-> where]
             ELSE AcceptConjunctsOn(r.x, [where EXCEPT ![j] = r.node], j + 1) :
             r \in {AcceptConjunctOn(x, where[j])}})

\* CollectPredicates(condition, &predicates_), lines 832-850: the support
\* check, the visit of the condition, then ExtractPredicates appends the
\* rewritten conjuncts.
CollectPredicates(x, where) ==
  IF \E k \in 1..Len(where) : ~IsSupportedConjunctivePredicate(where[k])
    THEN [x EXCEPT !.code = NotImplemented]
  ELSE Only({IF r.x.code # "" THEN r.x
             ELSE [r.x EXCEPT !.predicates_ = @ \o r.where] :
             r \in {AcceptConjunctsOn(x, where, 1)}})

\* Visit(TableRef) of the FROM clause on the transformer x: a derived table
\* (lines 346-364) or a single table.
VisitFromClause(x, from) ==
  IF from.kind = "select"
    THEN Only({IF sub.code # "" THEN sub
               ELSE [sub EXCEPT !.output_expr_ =
                       OperatorNode(LogicalQueryDerivedGet(from.alias), <<sub.output_expr_>>)] :
               sub \in {VisitSelectStatement(x, from.select[1])}})
    ELSE [x EXCEPT !.output_expr_ = OperatorNode(LogicalGet(from.name), <<>>)]

\* Lines 161-168: the Filter takes the predicates and predicates_ is cleared.
FilterPredicates(x) ==
  IF x.predicates_ = <<>> THEN x
  ELSE [x EXCEPT !.output_expr_ = OperatorNode(LogicalFilter(x.predicates_), <<x.output_expr_>>),
                 !.predicates_ = <<>>]

\* Lines 170-216: the aggregation, or the exception of RequireAggregation.
Aggregate(x, op) ==
  IF RequireAggregationThrows(op) THEN [x EXCEPT !.code = OptimizerError]
  ELSE [x EXCEPT !.output_expr_ = AggregationOver(op, x.output_expr_)]

\* Lines 262-274: the UNION side is transformed and put beside the tree.
VisitUnionSelect(x, op) ==
  IF op.union = <<>> THEN x
  ELSE Only({IF right.code # "" THEN right
             ELSE [right EXCEPT !.output_expr_ =
                     OperatorNode(LogicalUnion, <<x.output_expr_, right.output_expr_>>)] :
             right \in {VisitSelectStatement(x, op.union[1])}})

\* Line 276 left out.
RestorePredicates_Keep(x, pre_predicates) == x

\* Line 276: predicates_ = std::move(pre_predicates).
RestorePredicates(x, pre_predicates) == [x EXCEPT !.predicates_ = pre_predicates]

\* Lines 70-71 and 146-154: predicates_ is saved (by the caller of this
\* operator) and emptied, then the FROM clause is visited.
EnterSelect(x, op) == VisitFromClause([x EXCEPT !.predicates_ = <<>>], op.from)

\* Visit(SelectStatement) on the transformer x, start to end; an exception
\* leaves the method at once.
VisitSelectStatement(x, op) ==
  Only({IF from.code # "" THEN from
        ELSE Only({IF collected.code # "" THEN collected
                   ELSE Only({IF aggregated.code # "" THEN aggregated
                              ELSE Only({IF unioned.code # "" THEN unioned
                                         ELSE RestorePredicates(unioned, x.predicates_) :
                                         unioned \in {VisitUnionSelect(aggregated, op)}}) :
                              aggregated \in {Aggregate(FilterPredicates(collected), op)}}) :
                   collected \in {CollectPredicates(from, op.where)}}) :
        from \in {EnterSelect(x, op)}})

\* The transformer inside Visit(SelectStatement) of the statement: the fields
\* and the local pre_predicates.
SelectOptimizer(x, pre_predicates) ==
  [output_expr_ |-> <<x.output_expr_>>, predicates_ |-> x.predicates_, code |-> x.code,
   pre_predicates |-> pre_predicates]

CurrentAccumulator == Accumulator(optimizer.output_expr_[1], optimizer.predicates_, optimizer.code)

Nesting == stmt.kind = "SELECT" /\ "union" \in DOMAIN stmt

\* Lines 65-154 of the visit of the statement.
EnterSelectStatement ==
  /\ Nesting /\ pc = "start"
  /\ \E x \in {EnterSelect(CurrentAccumulator, stmt)} :
       /\ optimizer' = SelectOptimizer(x, optimizer.predicates_)
       /\ pc' = IF x.code # "" THEN "error" ELSE "where"
  /\ UNCHANGED <<catalog, stmt, error, input, firstBound, frames, sherpa, nextTempOid, oob,
                 txn, result>>

\* Lines 156-159.
CollectSelectCondition ==
  /\ Nesting /\ pc = "where"
  /\ \E x \in {CollectPredicates(CurrentAccumulator, stmt.where)} :
       /\ optimizer' = SelectOptimizer(x, optimizer.pre_predicates)
       /\ pc' = IF x.code # "" THEN "error" ELSE "filter"
  /\ UNCHANGED <<catalog, stmt, error, input, firstBound, frames, sherpa, nextTempOid, oob,
                 txn, result>>

\* Lines 161-216.
FilterAndAggregate ==
  /\ Nesting /\ pc = "filter"
  /\ \E x \in {Aggregate(FilterPredicates(CurrentAccumulator), stmt)} :
       /\ optimizer' = SelectOptimizer(x, optimizer.pre_predicates)
       /\ pc' = IF x.code # "" THEN "error" ELSE "union"
  /\ UNCHANGED <<catalog, stmt, error, input, firstBound, frames, sherpa, nextTempOid, oob,
                 txn, result>>

\* Lines 262-277: the UNION side, then predicates_ is restored.
UnionAndRestore ==
  /\ Nesting /\ pc = "union"
  /\ \E x \in {VisitUnionSelect(CurrentAccumulator, stmt)} :
       IF x.code # ""
         THEN /\ optimizer' = SelectOptimizer(x, optimizer.pre_predicates)
              /\ pc' = "error"
         ELSE /\ optimizer' = SelectOptimizer(RestorePredicates(x, optimizer.pre_predicates),
                                              optimizer.pre_predicates)
              /\ pc' = "done"
  /\ UNCHANGED <<catalog, stmt, error, input, firstBound, frames, sherpa, nextTempOid, oob,
                 txn, result>>

(* Inputs: SELECTs with nested SELECTs, each with a condition of its own *)

\* column = n, a condition without a sub-select that names its SELECT by n.
OwnCondition(table, column, depth, n) ==
  ComparisonExpression("=", ColumnValueExpression(table, column, depth), ConstantValueExpression(n))

\* SELECT d FROM u WHERE d = 4, two levels down.
DeepSelect ==
  NestingSelect(<<ColumnValueExpression("u", "d", 2)>>, SingleTableRef("u"),
                <<OwnCondition("u", "d", 2, 4)>>, 2, <<>>)

\* The sub-selects of a condition: with a condition of their own, without
\* one, correlated and with a sub-select of their own, with two columns, and
\* over a derived table.
NestedSubSelects ==
  {NestingSelect(<<ColumnValueExpression("s", "b", 1)>>, SingleTableRef("s"),
                 <<OwnCondition("s", "b", 1, 3)>>, 1, <<>>),
   NestingSelect(<<ColumnValueExpression("s", "b", 1)>>, SingleTableRef("s"), <<>>, 1, <<>>),
   NestingSelect(<<ColumnValueExpression("s", "b", 1)>>, SingleTableRef("s"),
                 <<ComparisonExpression("=", ColumnValueExpression("s", "b", 1),
                                        ColumnValueExpression("t", "a", 0)),
                   ComparisonExpression("=", ColumnValueExpression("s", "c", 1),
                                        SubqueryExpression(DeepSelect))>>, 1, <<>>),
   NestingSelect(<<ColumnValueExpression("s", "b", 1), ColumnValueExpression("s", "c", 1)>>,
                 SingleTableRef("s"), <<OwnCondition("s", "b", 1, 3)>>, 1, <<>>),
   NestingSelect(<<ColumnValueExpression("e", "d", 1)>>, DerivedTableRef("e", DeepSelect),
                 <<OwnCondition("e", "d", 1, 6)>>, 1, <<>>)}

NestingConditions ==
  {<<>>, <<OwnCondition("t", "a", 0, 2)>>}
    \cup UNION {{<<ComparisonExpression("=", ColumnValueExpression("t", "a", 0),
                                         SubqueryExpression(sub))>>,
                 <<OwnCondition("t", "a", 0, 2),
                   ComparisonExpression("IN", ColumnValueExpression("t", "a", 0),
                                        SubqueryExpression(sub))>>,
                 <<OperatorExpression("EXISTS", <<SubqueryExpression(sub)>>),
                   OwnCondition("t", "a", 0, 2)>>} : sub \in NestedSubSelects}

NestingFroms ==
  {SingleTableRef("t"),
   DerivedTableRef("t", NestingSelect(<<ColumnValueExpression("s", "b", 1)>>, SingleTableRef("s"),
                                      <<OwnCondition("s", "b", 1, 1)>>, 1, <<>>))}

NestingUnions ==
  {<<>>,
   <<NestingSelect(<<ColumnValueExpression("s", "c", 0)>>, SingleTableRef("s"),
                   <<OwnCondition("s", "c", 0, 5)>>, 0, <<>>)>>}

NestingInputs ==
  {NestingSelect(cols, from, where, 0, union) :
     cols \in {<<ColumnValueExpression("t", "a", 0)>>,
               <<ColumnValueExpression("t", "a", 0), AggregateExpression("t", "a", 0)>>},
     from \in NestingFroms, where \in NestingConditions, union \in NestingUnions}

NestingInit ==
  /\ catalog = SelectCatalog
  /\ stmt \in NestingInputs
  /\ input = stmt
  /\ pc = "start"
  /\ error = NoError
  /\ firstBound = <<>>
  /\ frames = <<>>
  /\ sherpa = [cte_table_names |-> {}, serial |-> 1]
  /\ nextTempOid = 1
  /\ oob = {}
  /\ optimizer = SelectOptimizer(Accumulator(NoTree, <<>>, ""), <<>>)
  /\ txn = NoTxn
  /\ result = NoResult

NestingNext ==
  \/ EnterSelectStatement
  \/ CollectSelectCondition
  \/ FilterAndAggregate
  \/ UnionAndRestore

SpecNesting == NestingInit /\ [][NestingNext]_vars

----------------------------------------------------------------------------
(* C28: predicates_ is the same after a SELECT as before, and no predicate    *)
(* crosses between a SELECT and a SELECT nested in it                         *)

\* The conjuncts of a condition as the plan holds them: a sub-select is
\* replaced by its select column, EXISTS becomes IS NOT NULL.
RewrittenConjunct(expr) ==
  IF expr.kind = "OPERATOR"
    THEN [expr EXCEPT !.type = "IS_NOT_NULL", !.children[1] = @.subselect.cols[1]]
    ELSE [expr EXCEPT !.children = [k \in 1..Len(expr.children) |->
                                      IF expr.children[k].kind = "ROW_SUBQUERY"
                                        THEN expr.children[k].subselect.cols[1]
                                        ELSE expr.children[k]]]

RewrittenCondition(where) == [k \in 1..Len(where) |-> RewrittenConjunct(where[k])]

\* The SELECTs of a statement: itself, and those of its derived table, of
\* the sub-selects of its condition and of its UNION side.
RECURSIVE SelectsOf(_)
SelectsOf(op) ==
  {op}
    \cup (IF op.from.kind = "select" THEN SelectsOf(op.from.select[1]) ELSE {})
    \cup UNION {UNION {SelectsOf(op.where[j].children[k].subselect) :
                       k \in {c \in 1..Len(op.where[j].children) :
                                op.where[j].children[c].kind = "ROW_SUBQUERY"}} :
                j \in 1..Len(op.where)}
    \cup (IF op.union = <<>> THEN {} ELSE SelectsOf(op.union[1]))

\* The predicate lists of the Filters of a plan, and how many Filters it has.
RECURSIVE FiltersOf(_)
FiltersOf(tree) ==
  (IF tree.contents.op = "LogicalFilter" THEN {tree.contents.predicates} ELSE {})
    \cup UNION {FiltersOf(tree.children[k]) : k \in 1..Len(tree.children)}

RECURSIVE FilterCount(_)
RECURSIVE FilterCountFrom(_, _)
FilterCountFrom(children, k) ==
  IF k > Len(children) THEN 0 ELSE FilterCount(children[k]) + FilterCountFrom(children, k + 1)
FilterCount(tree) ==
  (IF tree.contents.op = "LogicalFilter" THEN 1 ELSE 0) + FilterCountFrom(tree.children, 1)

\* Every Filter of the plan holds the condition of one SELECT of the
\* statement, whole and alone, and every SELECT with a condition has its Filter.
FiltersKeptApart(op, tree) ==
  LET conditions == {RewrittenCondition(s.where) : s \in {q \in SelectsOf(op) : q.where # <<>>}}
  IN /\ FiltersOf(tree) = conditions
     /\ FilterCount(tree) = Cardinality(conditions)

\* What predicates_ may hold when a SELECT is entered.
EntryPredicates == {<<>>, <<OwnCondition("t", "a", 0, 9)>>}

\* A SELECT of the statement visited on its own, from any accumulator:
\* when the visit returns, predicates_ is as on entry and the Filters of
\* the plan of the SELECT are those of its own SELECTs.
VisitKeepsPredicates(op) ==
  \A pre \in EntryPredicates :
    \A x \in {VisitSelectStatement(Accumulator(NoTree, pre, ""), op)} :
      x.code = "" => x.predicates_ = pre /\ FiltersKeptApart(op, x.output_expr_)

\* C28: when Visit(SelectStatement) returns normally, the accumulator of
\* predicates holds what it held on entry, and the Filter of each SELECT
\* holds the predicates of that SELECT only: those of a nested SELECT are
\* not in the Filter of the enclosing one, nor the other way round.
C28_PredicatesKeptApart ==
  /\ pc = "done" =>
       /\ optimizer.predicates_ = optimizer.pre_predicates
       /\ optimizer.predicates_ = <<>>
       /\ FiltersKeptApart(input, optimizer.output_expr_[1])
  /\ pc = "start" => \A s \in SelectsOf(input) : VisitKeepsPredicates(s)

\* SELECT a FROM (SELECT b FROM s WHERE b = 1) AS t WHERE a = 2 AND a IN
\* (SELECT b FROM s WHERE b = t.a AND c = (SELECT d FROM u WHERE d = 4))
\* UNION SELECT c FROM s WHERE c = 5 is transformed: five SELECTs, five Filters.
C28_Witness ==
  /\ pc = "done"
  /\ input.from.kind = "select"
  /\ input.union # <<>>
  /\ Len(input.where) = 2
  /\ Cardinality(SelectsOf(input)) = 5
  /\ FilterCount(optimizer.output_expr_[1]) = 5
  /\ optimizer.output_expr_[1].contents.op = "LogicalUnion"
  /\ optimizer.output_expr_[1].children[1].contents.op = "LogicalFilter"
  /\ optimizer.output_expr_[1].children[1].contents.predicates = RewrittenCondition(input.where)

----------------------------------------------------------------------------
(* The scopes of the binder: the pointer context_ of BindNodeVisitor and the   *)
(* BinderContext objects, each a local of the visit that constructs it         *)
(* (bind_node_visitor.cpp; binder_context.h, lines 52-54).                     *)

\* A node of a parsed statement as far as scopes go: its kind, the nodes its
\* visit accepts in turn, and whether its visit throws a BinderException
\* before it accepts the first of them.
ScopeNode(kind, children, throws) == [kind |-> kind, children |-> children, throws |-> throws]

\* The statements whose visit starts with the assertion "should be a root".
RootKinds == {"INSERT", "UPDATE", "DELETE", "CREATE", "DROP", "COPY"}

\* A pointer to a BinderContext is the position, in the stack of visits, of
\* the visit it is a local of; nullptr is 0.
NullContext == 0

\* BinderContext(upper_context), binder_context.h lines 52-54 and 288.
NewBinderContext(upper_context, visits) ==
  [upper_context_ |-> upper_context,
   depth_ |-> IF upper_context # NullContext
                THEN visits[upper_context].context[1].depth_ + 1 ELSE 0]

\* A visit in progress: the node, the child to accept next, the local
\* context (of a statement with a scope), the local pre_context (of a table
\* reference), and context_ as found on entry (history).
ScopeVisit(node, context, pre_context, entry) ==
  [node |-> node, i |-> 1, context |-> context, pre_context |-> pre_context, entry |-> entry]

\* The members of the visitor: context_.
ScopeVisitor(context) == [context_ |-> context]

\* The visit of a node that ended last: context_ on entry and on return (history).
Returned(kind, entry, exit) == [kind |-> kind, entry |-> entry, exit |-> exit]

\* The start of the visit of a node: the locals it constructs and context_
\* once they are set up (lines 115-117, 145-147, 267-269, 290-292, 367-369,
\* 607-609 for the root statements, 428-429 for SELECT, 881 for a table
\* reference with a SELECT; EXPLAIN and a subquery expression set up nothing).
EnterVisit(node, context, visits) ==
  IF node.kind \in RootKinds
    THEN [visit |-> ScopeVisit(node, <<NewBinderContext(NullContext, visits)>>, NullContext, context),
          context_ |-> Len(visits) + 1]
  ELSE IF node.kind = "SELECT"
    THEN [visit |-> ScopeVisit(node, <<NewBinderContext(context, visits)>>, NullContext, context),
          context_ |-> Len(visits) + 1]
  ELSE IF node.kind = "TABLE_REF"
    THEN [visit |-> ScopeVisit(node, <<>>, context, context), context_ |-> context]
  ELSE [visit |-> ScopeVisit(node, <<>>, NullContext, context), context_ |-> context]

\* NOISEPAGE_ASSERT(context_ == nullptr, "... should be a root.") fails.
RootAssertionFails(node, context) == node.kind \in RootKinds /\ context # NullContext

\* Line 595 as context_ = nullptr.
LeaveSelectStatement_ToRoot(context, visits) == NullContext

\* Line 595: context_ = context_->GetUpperContext().
LeaveSelectStatement(context, visits) == visits[context].context[1].upper_context_

\* Lines 133, 283, 322, 414, 644: context_ = nullptr; line 260 (CREATE):
\* context_ = context_->GetUpperContext().
LeaveRootStatement(kind, context, visits) ==
  IF kind = "CREATE" THEN visits[context].context[1].upper_context_ ELSE NullContext

\* Line 886: context_ = pre_context.
LeaveTableRef(visit) == visit.pre_context

ScopeBinding == pc = "binding" /\ stmt.kind \in RootKinds \cup {"SELECT", "EXPLAIN"} /\ "throws" \in DOMAIN stmt

\* What holds the frames, the visitor and the history in this specification.
ScopeUnchanged == UNCHANGED <<catalog, stmt, input, firstBound, nextTempOid, oob, optimizer, txn>>

\* Accept of a node with the stack of visits and context_ given. A failed
\* assertion ends a build with assertions; a build without goes on.
AcceptNode(node, visits) ==
  \/ /\ RootAssertionFails(node, sherpa.context_)
     /\ pc' = "error"
     /\ error' = BinderException(AssertionFailure, 0, 0)
     /\ UNCHANGED <<frames, sherpa, result>>
  \/ \E e \in {EnterVisit(node, sherpa.context_, visits)} :
       /\ frames' = Append(visits, e.visit)
       /\ sherpa' = ScopeVisitor(e.context_)
       /\ pc' = "binding"
       /\ UNCHANGED <<error, result>>

\* BindNameToNode, lines 54-63: the statement is accepted.
BindStatement ==
  /\ pc = "start" /\ "throws" \in DOMAIN stmt
  /\ AcceptNode(stmt, frames)
  /\ ScopeUnchanged

\* The visit on top throws a BinderException: the bind call ends, the locals
\* of all visits are gone and context_ is left as it was.
ThrowInVisit ==
  /\ ScopeBinding
  /\ Top.node.throws /\ Top.i = 1
  /\ pc' = "error"
  /\ error' = BinderException(SyntaxError, 0, 0)
  /\ frames' = <<>>
  /\ UNCHANGED <<sherpa, result>>
  /\ ScopeUnchanged

\* The visit on top accepts its next child.
AcceptChild ==
  /\ ScopeBinding
  /\ ~Top.node.throws
  /\ Top.i <= Len(Top.node.children)
  /\ AcceptNode(Top.node.children[Top.i], SetTop([Top EXCEPT !.i = @ + 1]))
  /\ ScopeUnchanged

\* The visit on top returns with context_ set to exit.
ReturnFromVisit(exit) ==
  /\ frames' = SubSeq(frames, 1, Len(frames) - 1)
  /\ sherpa' = ScopeVisitor(exit)
  /\ result' = Returned(Top.node.kind, Top.entry, exit)
  /\ pc' = IF Len(frames) = 1 THEN "done" ELSE "binding"
  /\ UNCHANGED error
  /\ ScopeUnchanged

VisitOver == ScopeBinding /\ ~Top.node.throws /\ Top.i > Len(Top.node.children)

\* The end of Visit(SelectStatement), line 595.
EndSelectStatement ==
  /\ VisitOver /\ Top.node.kind = "SELECT"
  /\ ReturnFromVisit(LeaveSelectStatement(sherpa.context_, frames))

\* The end of the visit of a root statement.
EndRootStatement ==
  /\ VisitOver /\ Top.node.kind \in RootKinds
  /\ ReturnFromVisit(LeaveRootStatement(Top.node.kind, sherpa.context_, frames))

\* The end of Visit(TableRef) of a table reference with a SELECT, lines 884-890.
EndTableRef ==
  /\ VisitOver /\ Top.node.kind = "TABLE_REF"
  /\ ReturnFromVisit(LeaveTableRef(Top))

\* The end of Visit(ExplainStatement) and of Visit(SubqueryExpression),
\* which leave context_ alone.
EndExplainOrSubquery ==
  /\ VisitOver /\ Top.node.kind \in {"EXPLAIN", "ROW_SUBQUERY"}
  /\ ReturnFromVisit(sherpa.context_)

(* Inputs: statements as the parser makes them, root statements on top only *)

SimpleSelect == ScopeNode("SELECT", <<>>, FALSE)

DerivedTable(select) == ScopeNode("TABLE_REF", <<select>>, FALSE)

Subquery(select) == ScopeNode("ROW_SUBQUERY", <<select>>, FALSE)

\* SELECTs one level deep: plain, throwing, over a derived table, with a
\* subquery, with a UNION side.
InnerSelects ==
  {SimpleSelect, ScopeNode("SELECT", <<>>, TRUE),
   ScopeNode("SELECT", <<DerivedTable(SimpleSelect)>>, FALSE),
   ScopeNode("SELECT", <<Subquery(SimpleSelect)>>, FALSE),
   ScopeNode("SELECT", <<SimpleSelect>>, FALSE)}

\* What a SELECT accepts: table references with a SELECT (derived tables,
\* WITH entries), subquery expressions, SELECTs (the UNION side).
SelectChildren ==
  {DerivedTable(s) : s \in InnerSelects} \cup {Subquery(s) : s \in InnerSelects} \cup InnerSelects

MaxScopeChildren == 2

ScopeSelects ==
  {ScopeNode("SELECT", children, FALSE) :
     children \in UNION {[1..n -> SelectChildren] : n \in 0..MaxScopeChildren}}

\* INSERT ... SELECT, UPDATE and DELETE with a subquery in the condition,
\* CREATE VIEW, COPY of a SELECT, DROP; each also without a SELECT.
RootStatements ==
  {ScopeNode("DROP", <<>>, FALSE), ScopeNode("DROP", <<>>, TRUE)}
    \cup {ScopeNode(kind, <<>>, throws) : kind \in RootKinds \ {"DROP"}, throws \in BOOLEAN}
    \cup {ScopeNode(kind, <<s>>, FALSE) : kind \in {"INSERT", "CREATE", "COPY"}, s \in InnerSelects}
    \cup {ScopeNode(kind, <<Subquery(s)>>, FALSE) : kind \in {"UPDATE", "DELETE"}, s \in InnerSelects}

\* EXPLAIN of a DELETE, INSERT, SELECT or UPDATE; of anything else it throws.
ExplainStatements ==
  {ScopeNode("EXPLAIN", <<s>>, FALSE) :
     s \in InnerSelects \cup {r \in RootStatements : r.kind \in {"DELETE", "INSERT", "UPDATE"}}}
    \cup {ScopeNode("EXPLAIN", <<>>, TRUE)}

ScopeStatements == ScopeSelects \cup RootStatements \cup ExplainStatements

ScopeInit ==
  /\ catalog = SelectCatalog
  /\ stmt \in ScopeStatements
  /\ input = stmt
  /\ pc = "start"
  /\ error = NoError
  /\ firstBound = <<>>
  /\ frames = <<>>
  /\ sherpa = ScopeVisitor(NullContext)
  /\ nextTempOid = 1
  /\ oob = {}
  /\ optimizer = NoOptimizer
  /\ txn = NoTxn
  /\ result = NoResult

ScopeNext ==
  \/ BindStatement
  \/ ThrowInVisit
  \/ AcceptChild
  \/ EndSelectStatement
  \/ EndRootStatement
  \/ EndTableRef
  \/ EndExplainOrSubquery

SpecScopes == ScopeInit /\ [][ScopeNext]_vars

----------------------------------------------------------------------------
(* C29: the scopes of the binder are pushed and popped in balance *)

\* The visits whose local context is alive.
ScopedVisits == {k \in 1..Len(frames) : frames[k].context # <<>>}

\* A pointer is nullptr or points to the context of a visit in progress.
LiveContext(p) == p = NullContext \/ p \in ScopedVisits

\* The depth of the scope at position k is that of its parent plus 1, and 0
\* without a parent; the parent is a scope entered before it.
DepthFromParent(k) ==
  LET c == frames[k].context[1]
  IN /\ LiveContext(c.upper_context_)
     /\ c.upper_context_ < k
     /\ c.depth_ = IF c.upper_context_ = NullContext THEN 0
                   ELSE frames[c.upper_context_].context[1].depth_ + 1

\* C29: after a visit of a SELECT, of a derived table or of a subquery has
\* returned, the current scope is the one that was current when it was
\* entered; after a statement is bound, the current scope is none; the depth
\* of each scope is the depth of its parent plus 1, or 0 without a parent;
\* and no "should be a root" assertion fails.
C29_ScopesBalanced ==
  /\ (pc \in {"binding", "done"} /\ result # NoResult) => result.exit = result.entry
  /\ pc = "done" => sherpa.context_ = NullContext /\ frames = <<>>
  /\ pc = "binding" =>
       /\ LiveContext(sherpa.context_)
       /\ \A k \in ScopedVisits : DepthFromParent(k)
  /\ error.code # AssertionFailure

\* In SELECT .. FROM (SELECT .. WHERE .. (SELECT ..)) the visit of the
\* subquery, entered in the scope of depth 1 below the scope of depth 0, has
\* just returned to that scope.
C29_Witness ==
  /\ pc = "binding"
  /\ result # NoResult
  /\ result.kind = "ROW_SUBQUERY"
  /\ result.entry = 3
  /\ sherpa.context_ = 3
  /\ Len(frames) = 3
  /\ frames[1].node.kind = "SELECT" /\ frames[2].node.kind = "TABLE_REF"
  /\ frames[3].node.kind = "SELECT"
  /\ frames[3].context[1].depth_ = 1
  /\ frames[3].context[1].upper_context_ = 1

----------------------------------------------------------------------------
(* INSERT from the binder to the plan: BindNodeVisitor::Visit(InsertStatement) *)
(* over all rows or the SELECT (bind_node_visitor.cpp, lines 363-415), then    *)
(* QueryToOperatorTransformer::Visit(InsertStatement) and ValidateInsertValues *)
(* (query_to_operator_transformer.cpp, lines 525-564 and 1019-1051).           *)

\* CATALOG_EXCEPTION messages of the transformer.
MoreExpressions == "INSERT has more expressions than target columns"
MoreTargetColumns == "INSERT has more target columns than expressions"
NotNullViolation == "violates not-null constraint"
NoSuchColumn == "column of relation does not exist"

\* An INSERT statement with its rows (VALUES) or with the select list of its
\* bound SELECT (INSERT FROM SELECT).
InsertStatement(insert_type, columns, rows, select_cols) ==
  [kind |-> "INSERT", table |-> "t", insert_type |-> insert_type, columns |-> columns,
   rows |-> rows, select_cols |-> select_cols]

\* ValidateAndCorrectInsertValues over the rows from position k on, lines
\* 398-402: the rows as left and the code of the first exception.
RECURSIVE CorrectRows(_, _, _, _)
CorrectRows(insert_columns, rows, table_schema, k) ==
  IF k > Len(rows) THEN [code |-> "", rows |-> rows]
  ELSE Only({IF res.code # "" THEN [code |-> res.code, rows |-> [rows EXCEPT ![k] = res.values]]
             ELSE CorrectRows(insert_columns, [rows EXCEPT ![k] = res.values], table_schema, k + 1) :
             res \in {ValidateAndCorrectInsertValues(insert_columns, rows[k], table_schema)}})

\* Lines 404-411 left out: the insert column list stays as written.
FinalInsertColumns_AsWritten(insert_columns, table_schema) == insert_columns

\* Lines 404-411: the final list of insert columns is the full list.
FinalInsertColumns(insert_columns, table_schema) == SchemaColumnNames(table_schema)

\* BindNodeVisitor::Visit(InsertStatement), lines 363-415, the SELECT of an
\* INSERT FROM SELECT being bound already.
VisitInsertRows(cat, node) ==
  LET table_schema == cat[node.table]
  IN IF \E i \in 1..Len(node.columns) : ~ColumnInSchema(table_schema, node.columns[i])
       THEN [error |-> BinderException(UndefinedColumn, 0, 0), stmt |-> node]
     ELSE IF node.insert_type = "SELECT"
       THEN Only({IF res.code # ""
                    THEN [error |-> BinderException(res.code, 0, 0), stmt |-> node]
                    ELSE [error |-> NoError,
                          stmt |-> [node EXCEPT
                                      !.select_cols = res.values,
                                      !.columns = FinalInsertColumns(node.columns, table_schema)]] :
                  res \in {ValidateAndCorrectInsertValues(node.columns, node.select_cols,
                                                          table_schema)}})
     ELSE Only({IF res.code # ""
                  THEN [error |-> BinderException(res.code, 0, 0),
                        stmt |-> [node EXCEPT !.rows = res.rows]]
                  ELSE [error |-> NoError,
                        stmt |-> [node EXCEPT
                                    !.rows = res.rows,
                                    !.columns = FinalInsertColumns(node.columns, table_schema)]] :
                res \in {CorrectRows(node.columns, node.rows, table_schema, 1)}})

\* column.StoredExpression() == nullptr: the column was declared without a
\* default.
LacksDefault(column) == column.stored = NullConstant(column.type)

\* QueryToOperatorTransformer::ValidateInsertValues, lines 1019-1051: "" or
\* the message of the exception.
ValidateInsertValues(insert_columns, values, column_objects) ==
  IF insert_columns = <<>>
    THEN IF Len(values) > Len(column_objects) THEN MoreExpressions
         ELSE IF \E i \in (Len(values) + 1)..Len(column_objects) :
                   ~column_objects[i].nullable /\ LacksDefault(column_objects[i])
           THEN NotNullViolation
         ELSE ""
  ELSE IF Len(values) > Len(insert_columns) THEN MoreExpressions
  ELSE IF Len(values) < Len(insert_columns) THEN MoreTargetColumns
  ELSE ""

\* Lines 533-539: ValidateInsertValues on the select list or on every row.
ValidateAllInsertValues(node, schema) ==
  IF node.insert_type = "SELECT"
    THEN ValidateInsertValues(node.columns, node.select_cols, schema)
  ELSE LET failing == {k \in 1..Len(node.rows) :
                         ValidateInsertValues(node.columns, node.rows[k], schema) # ""}
       IN IF failing = {} THEN ""
          ELSE ValidateInsertValues(node.columns,
                                    node.rows[CHOOSE k \in failing : \A j \in failing : k <= j],
                                    schema)

\* Lines 541-556: the columns named by the statement (the set specified).
SpecifiedColumns(node, schema) ==
  {i \in 1..Len(schema) : \E k \in 1..Len(node.columns) : node.columns[k] = schema[i].name}

\* Lines 558-563: the columns the not-null check finds.
UnspecifiedNotNull(node, schema) ==
  {i \in 1..Len(schema) : /\ i \notin SpecifiedColumns(node, schema)
                          /\ ~schema[i].nullable
                          /\ LacksDefault(schema[i])}

\* Lines 541-563: "" or the message of the exception.
CheckInsertColumns(node, schema) ==
  IF \E k \in 1..Len(node.columns) : ~ColumnInSchema(schema, node.columns[k]) THEN NoSuchColumn
  ELSE IF UnspecifiedNotNull(node, schema) # {} THEN NotNullViolation
  ELSE ""

PlanningInsert == stmt.kind = "INSERT" /\ "insert_type" \in DOMAIN stmt

\* BindNameToNode on the INSERT statement.
BindInsertRows ==
  /\ pc = "start" /\ PlanningInsert
  /\ \E r \in {VisitInsertRows(catalog, stmt)} :
       /\ stmt' = r.stmt
       /\ error' = r.error
       /\ pc' = IF r.error.code = "" THEN "done" ELSE "error"
  /\ UNCHANGED <<others, catalog, input, firstBound, frames, sherpa, nextTempOid, oob>>

\* Visit(InsertStatement) of the transformer on the bound statement, lines
\* 525-539.
ValidateBoundInsert ==
  /\ pc = "done" /\ PlanningInsert
  /\ \E code \in {ValidateAllInsertValues(stmt, catalog[stmt.table])} :
       /\ error' = BinderException(code, 0, 0)
       /\ pc' = IF code = "" THEN "validated" ELSE "planError"
  /\ UNCHANGED <<others, catalog, stmt, input, firstBound, frames, sherpa, nextTempOid, oob>>

\* Lines 541-563.
CheckBoundInsertColumns ==
  /\ pc = "validated" /\ PlanningInsert
  /\ \E code \in {CheckInsertColumns(stmt, catalog[stmt.table])} :
       /\ error' = BinderException(code, 0, 0)
       /\ pc' = IF code = "" THEN "planned" ELSE "planError"
  /\ UNCHANGED <<others, catalog, stmt, input, firstBound, frames, sherpa, nextTempOid, oob>>

(* Inputs *)

\* What stands in a VALUES row: 1, 'x' or NULL.
RowValues ==
  {ValueExpr("Const", "Integer", "Invalid", FALSE, 1),
   ValueExpr("Const", "Varchar", "Invalid", FALSE, 1),
   ValueExpr("Const", "Invalid", "Invalid", TRUE, 1)}

\* What stands in the select list of a bound SELECT: a column or a constant.
SelectValues ==
  {ValueExpr("Col", "Integer", "Invalid", FALSE, 1),
   ValueExpr("Col", "Varchar", "Invalid", FALSE, 1),
   ValueExpr("Const", "Integer", "Invalid", FALSE, 1)}

\* One row, or a row and a second one as long, one shorter or one longer.
InsertRows(n) ==
  LET rows == UNION {SeqsOfLen(RowValues, k) : k \in 1..n}
  IN {<<r>> : r \in rows}
       \cup {<<r, r>> : r \in rows}
       \cup {<<r, SubSeq(r, 1, Len(r) - 1)>> : r \in rows}
       \cup {<<r, Append(r, ValueExpr("Const", "Invalid", "Invalid", TRUE, 1))>> : r \in rows}

PlannedInserts(schema) ==
  {InsertStatement("VALUES", cols, rows, <<>>) :
     cols \in ParsedInsertColumns(schema), rows \in InsertRows(Len(schema))}
    \cup {InsertStatement("SELECT", cols, <<>>, select_cols) :
            cols \in ParsedInsertColumns(schema),
            select_cols \in UNION {SeqsOfLen(SelectValues, k) : k \in 1..(Len(schema) + 1)}}

InsertPlanInit ==
  /\ \E schema \in InsertSchemas :
       /\ catalog = [t \in {"t"} |-> schema]
       /\ stmt \in PlannedInserts(schema)
  /\ input = stmt
  /\ pc = "start"
  /\ error = NoError
  /\ firstBound = <<>>
  /\ frames = <<>>
  /\ sherpa = [cte_table_names |-> {}, serial |-> 1]
  /\ nextTempOid = 1
  /\ oob = {}
  /\ optimizer = NoOptimizer
  /\ txn = NoTxn
  /\ result = NoResult

InsertPlanNext ==
  \/ BindInsertRows
  \/ ValidateBoundInsert
  \/ CheckBoundInsertColumns

SpecInsertPlan == InsertPlanInit /\ [][InsertPlanNext]_vars

----------------------------------------------------------------------------
(* C30: an INSERT the binder has bound passes the checks of the transformer *)

\* Every row, or the select list, of the statement has n values.
AllOfLength(node, n) ==
  IF node.insert_type = "SELECT" THEN Len(node.select_cols) = n
  ELSE \A k \in 1..Len(node.rows) : Len(node.rows[k]) = n

\* C30: when the binder has bound an INSERT (VALUES or INSERT FROM SELECT),
\* the insert column list of the statement is the full column list of the
\* schema, every row (or the select list of the SELECT) has as many values as
\* the schema has columns, ValidateInsertValues of the transformer raises no
\* error, and its not-null check finds no unspecified column.
C30_BoundInsertPassesValidation ==
  (PlanningInsert /\ pc \in {"done", "validated", "planned", "planError"}) =>
    /\ stmt.columns = SchemaColumnNames(catalog[stmt.table])
    /\ AllOfLength(stmt, Len(catalog[stmt.table]))
    /\ ValidateAllInsertValues(stmt, catalog[stmt.table]) = ""
    /\ SpecifiedColumns(stmt, catalog[stmt.table]) = 1..Len(catalog[stmt.table])
    /\ UnspecifiedNotNull(stmt, catalog[stmt.table]) = {}
    /\ CheckInsertColumns(stmt, catalog[stmt.table]) = ""
    /\ pc # "planError"

\* INSERT INTO t (c2) VALUES ('x'), ('x') into a table whose c1 is NOT NULL
\* with a default has passed both checks of the transformer, with two rows
\* of two values.
C30_Witness ==
  /\ PlanningInsert /\ pc = "planned"
  /\ input.insert_type = "VALUES"
  /\ input.columns = <<"c2">>
  /\ Len(input.rows) = 2 /\ Len(input.rows[1]) = 1
  /\ Len(catalog["t"]) = 2
  /\ ~catalog["t"][1].nullable
  /\ Len(stmt.rows[1]) = 2 /\ Len(stmt.rows[2]) = 2
  /\ stmt.columns = <<"c1", "c2">>

====
